---- MODULE Spec2Model ----
(***************************************************************************)
(* A model of tools/gn/scheduler.cc: the Scheduler that couples a single-  *)
(* consumer main-thread message loop with a worker pool.  Every atomic     *)
(* operation, lock acquisition, critical section and task post of the      *)
(* source is one step of the thread that makes it.                         *)
(***************************************************************************)
EXTENDS Integers, Sequences, FiniteSets, TLC

(* ------------------------------ bounds --------------------------------- *)
\* Worker threads of the pool.
NumWorkers == 2
\* ScheduleWork calls made in one run.
MaxTasks == 2
\* FailWithError calls made in one run.
MaxFails == 2
\* Log calls made in one run.
MaxLogs == 1
\* AddGenDependency calls made in one run.
MaxAdds == 3
\* GetGenDependencies calls made in one run.
MaxGets == 1
\* SuppressStdoutForTesting calls made in one run.
MaxSuppress == 1
\* ScheduleWork calls in a run that records generator dependencies.
DataTasks == 1
\* Calls of each operation in a run that uses every lock-guarded operation.
LockCalls == 1
\* The same for a run checked for progress.
FairTasks == 2
\* UnknownSpec: tasks scheduled, and calls on the unknown-input bookkeeping
UnknownTasks == 1
MaxUnknownCalls == 4
\* RdepsSpec: tasks scheduled, and calls on the write-runtime-deps targets
RdepsTasks == 1
MaxRdepsCalls == 3
\* LogSpec: tasks scheduled, Log calls and FailWithError calls
LogTasks == 1
MaxLogCalls == 2
LogFails == 1
\* ScopeSpec: statements the executed input has
MaxStmts == 4
\* FileSpec: longest data written, and calls of WriteFileAtomically
MaxData == 2
MaxWrites == 2
\* WriterSpec: ScheduleWrite calls, direct WriteNow calls, serializers
MaxSchedules == 2
MaxWriteNows == 2
NumSerializers == 2
MaxRegisters == 2
\* MatchSpec: longest test name and longest filter
MaxNameLen == 2
MaxFilterLen == 4
\* RunnerSpec: registered tests, arguments, Check calls of one test
MaxTests == 2
MaxArgs == 2
MaxChecks == 2
FairFails == 1

(* ------------------------------ threads -------------------------------- *)
Main == 0
Workers == 1..NumWorkers
Threads == {Main} \cup Workers
NoThread == -1
NoErr == 0
Files == {1, 2}
Targets == {1, 2}
\* int32_t, narrowed to IntWidth bits, and the data lengths a serializer
\* produces: one of them does not fit.
IntWidth == 3
Int32Max == 2 ^ (IntWidth - 1) - 1
DataLengths == (1..MaxData) \cup {Int32Max + 1}
\* The identifiers of the input that the template test executes.
Names == {"a", "b"}

VARIABLES
  pc,                    \* position of every thread in the code
  arg,                   \* the argument of the call a thread is inside
  phase,                 \* the main program: "pre", "run", "post", "dtor", "done"
  lock_,                 \* holder of Scheduler::lock_
  pool_work_count_lock_, \* holder of Scheduler::pool_work_count_lock_
  work_count_,           \* base::AtomicRefCount
  pool_work_count_,      \* base::AtomicRefCount
  is_failed_,
  has_been_shutdown_,
  suppress_stdout_for_testing_,
  gen_dependencies_,     \* sequence of [file, by]: "by" tags the adding thread
  posted,                \* every task ever posted to the main loop, in order
  ran,                   \* how many of them the main loop has dequeued
  pool_queue,            \* tasks posted to the worker pool and not yet started
  output_,               \* what OutputString / PrintToStdout have written
  local_is_failed,       \* Run's local
  suppress_local,        \* FailWithErrorOnMainThread's local, line 172
  run_result,            \* what Run returned: "none", "true" or "false"
  written_files_,        \* sequence of files
  unknown_generated_inputs_, \* the multimap: pairs <<file, target>> in key order
  write_runtime_deps_targets_, \* sequence of targets
  got,                   \* what the last GetGenDependencies returned
  got_unknown,           \* what the last GetUnknownGeneratedInputs returned
  got_targets,           \* what the last GetWriteRuntimeDepsTargets returned
  got_generated,         \* the last IsFileGeneratedByWriteRuntimeDeps: "none", "true", "false"
  destroyed,             \* ~Scheduler has returned
  calls,                 \* how many calls of each operation were made
  budget,                \* how many calls of each operation the run makes
  latched,               \* the error of the FailWithError call that set is_failed_
  zero_decs,             \* DecrementWorkCount calls that brought the count to 0
  add_log,               \* the AddGenDependency calls completed, in order
  unknown_log,           \* the AddUnknownGeneratedInput calls completed since
                         \* the last clear: pairs <<file, target>> in order
  rdeps_log,             \* the targets of the AddWriteRuntimeDepsTarget calls completed
  written_log,           \* the AddWrittenFile calls completed since the last
                         \* clear: [file, at], "at" the length of unknown_log then
  \* The scope that TEST(FunctionTemplate, MarkUsed) executes its input in.
  values_,               \* Scope::values_: per name "none", "unused" or "used"
  unused_err,            \* CheckForUnusedVars: "none" (not called), "ok", or
                         \* the name of the unused variable it reports
  hidden,                \* names that were declared when a template whose body
                         \* refers to them was defined, and not assigned since
  reads,                 \* names that a statement outside a template has read
  stmts,                 \* statements executed
  \* ImportantFileWriter::WriteFileAtomically and the two files it touches.
  wfa_pc,                \* position in the call: "idle" between calls
  wfa_data,              \* the call's data: [id, length]
  target_,               \* content of the file at path: [id, bytes]
  tmp_exists,            \* the temp file of the call exists
  tmp_bytes,             \* bytes of the data the temp file holds
  bytes_written,         \* the local of line 111
  flush_success,         \* the local of line 111
  wfa_result,            \* what the call returned: "none", "true", "false"
  target_before,         \* content of the file at path when the call began
  delete_failed,         \* the call's DeleteFile did not remove the temp file
  wfa_calls,             \* calls made
  \* An ImportantFileWriter, its timer and its task runner.
  serializer_,           \* ImportantFileWriter::serializer_: 0 is nullptr
  timer_running,         \* timer().IsRunning()
  iw_pc,                 \* position of the writer's sequence: "idle" between
                         \* calls
  iw_data,               \* length of the data WriteNow was given
  in_dsw,                \* WriteNow was called by DoScheduledWrite
  write_tasks,           \* tasks posted to task_runner_ and not yet run:
                         \* [length, before, after], the bound arguments
  before_next_write_callback_,  \* 0 is a null callback, else the number of
  after_next_write_callback_,   \* the RegisterOnNextWriteCallbacks call
  wtask,                 \* the write task that is running, if one is
  cb_runs,               \* per registration: times its before and its after
                         \* callback ran, and the result the latter was given
  \* The test program of gn_test.cc.
  match_call,            \* a call of TestMatchesFilter: [test, filter, result],
                         \* the result "none" before it returns
  tests,                 \* the registered tests, in registration order:
                         \* [name, should_run]
  argv,                  \* the arguments after argv[0]: [is_filter, value],
                         \* "--gtest_filter=<value>" or any other argument
  test_filter,           \* the local of main
  main_pc,               \* position of main
  idx,                   \* the loop variable i of main's second loop
  failed_,               \* testing::Test::failed_ of the test that exists
  passed,                \* the local of main
  exit_code,             \* what main returned: "none" until it has
  run_log,               \* what has happened to tests: <<i, event>>
  wstat                  \* history of the writer: calls made (scheds, nows),
                         \* timer starts, DoScheduledWrite runs begun (fired)
                         \* and ended (done), running timers that a direct
                         \* WriteNow stopped (stops), ScheduleWrite calls since
                         \* the last write or ClearPendingWrite (since), the
                         \* serializer of the last ScheduleWrite (last), and
                         \* of the last DoScheduledWrite the serializer used,
                         \* its result (ok, length) and the tasks it posted
                         \* or ran itself (posts, inline)

vars == <<pc, arg, phase, lock_, pool_work_count_lock_, work_count_,
          pool_work_count_, is_failed_, has_been_shutdown_,
          suppress_stdout_for_testing_, gen_dependencies_, posted, ran,
          pool_queue, output_, local_is_failed, run_result, got, destroyed,
          written_files_, unknown_generated_inputs_,
          write_runtime_deps_targets_, got_unknown, got_targets, got_generated,
          calls, budget, latched, zero_decs, add_log, suppress_local,
          unknown_log, written_log, rdeps_log,
          values_, unused_err, hidden, reads, stmts,
          wfa_pc, wfa_data, target_, tmp_exists, tmp_bytes, bytes_written,
          flush_success, wfa_result, target_before, delete_failed, wfa_calls,
          serializer_, timer_running, iw_pc, iw_data, in_dsw, write_tasks,
          wstat, before_next_write_callback_, after_next_write_callback_,
          wtask, cb_runs, match_call, tests, argv, test_filter, main_pc, idx,
          failed_, passed, exit_code, run_log>>

\* The groups of variables an action leaves alone.
locks == <<lock_, pool_work_count_lock_>>
counts == <<work_count_, pool_work_count_>>
flags == <<is_failed_, has_been_shutdown_, suppress_stdout_for_testing_>>
loopv == <<posted, ran>>
mainv == <<phase, local_is_failed, run_result, destroyed, suppress_local>>
bookv == <<written_files_, unknown_generated_inputs_,
          write_runtime_deps_targets_, got_unknown, got_targets, got_generated,
          unknown_log, written_log, rdeps_log>>
datav == <<gen_dependencies_, got, bookv>>
\* The variables that are not the scheduler's.
scopev == <<values_, unused_err, hidden, reads, stmts>>
filev == <<wfa_pc, wfa_data, target_, tmp_exists, tmp_bytes, bytes_written,
           flush_success, wfa_result, target_before, delete_failed, wfa_calls>>
cbv == <<before_next_write_callback_, after_next_write_callback_, wtask,
         cb_runs>>
writerv == <<serializer_, timer_running, iw_pc, iw_data, in_dsw, write_tasks,
             wstat, cbv>>
testv == <<match_call, tests, argv, test_filter, main_pc, idx, failed_,
           passed, exit_code, run_log>>
extv == <<scopev, filev, writerv, testv>>
ghost == <<latched, zero_decs, budget, add_log, extv>>

\* main of the test program is not running.
MainOff ==
  /\ tests = <<>>
  /\ argv = <<>>
  /\ test_filter = <<>>
  /\ main_pc = "off"
  /\ idx = 0
  /\ failed_ = FALSE
  /\ passed = TRUE
  /\ exit_code = "none"
  /\ run_log = <<>>

\* The test program is not part of the run.
NoTestProgram ==
  /\ match_call = [test |-> <<>>, filter |-> <<>>, result |-> "none"]
  /\ MainOff

\* Scheduler::Scheduler(), lines 20-29: the state after construction, with
\* the main program about to use the scheduler and every worker idle.
Constructed ==
  /\ pc = [t \in Threads |-> IF t = Main THEN "pre" ELSE "free"]
  /\ arg = [t \in Threads |-> 0]
  /\ phase = "pre"
  /\ lock_ = NoThread
  /\ pool_work_count_lock_ = NoThread
  /\ work_count_ = 0
  /\ pool_work_count_ = 0
  /\ is_failed_ = FALSE
  /\ has_been_shutdown_ = FALSE
  \* not in the constructor's initialiser list: either value
  /\ suppress_stdout_for_testing_ \in BOOLEAN
  /\ gen_dependencies_ = <<>>
  /\ posted = <<>>
  /\ ran = 0
  /\ pool_queue = 0
  /\ output_ = <<>>
  /\ local_is_failed = FALSE
  /\ run_result = "none"
  /\ got = <<>>
  /\ written_files_ = <<>>
  /\ unknown_generated_inputs_ = <<>>
  /\ write_runtime_deps_targets_ = <<>>
  /\ got_unknown = <<>>
  /\ got_targets = <<>>
  /\ got_generated = "none"
  /\ destroyed = FALSE
  /\ calls = [sched |-> 0, fail |-> 0, log |-> 0, add |-> 0, get |-> 0,
              suppress |-> 0, book |-> 0]
  /\ latched = NoErr
  /\ zero_decs = 0
  /\ add_log = <<>>
  /\ unknown_log = <<>>
  /\ written_log = <<>>
  /\ rdeps_log = {}
  /\ values_ = [x \in Names |-> "none"]
  /\ unused_err = "none"
  /\ hidden = {}
  /\ reads = {}
  /\ stmts = 0
  /\ wfa_pc = "idle"
  /\ wfa_data = [id |-> 0, length |-> 0]
  /\ target_ = [id |-> 0, bytes |-> 0]
  /\ tmp_exists = FALSE
  /\ tmp_bytes = 0
  /\ bytes_written = 0
  /\ flush_success = FALSE
  /\ wfa_result = "none"
  /\ target_before = [id |-> 0, bytes |-> 0]
  /\ delete_failed = FALSE
  /\ wfa_calls = 0
  /\ serializer_ = 0
  /\ timer_running = FALSE
  /\ iw_pc = "idle"
  /\ iw_data = 0
  /\ in_dsw = FALSE
  /\ write_tasks = <<>>
  /\ wstat = [scheds |-> 0, nows |-> 0, starts |-> 0, fired |-> 0,
              stops |-> 0, last |-> 0, used |-> 0, ok |-> FALSE,
              length |-> 0, posts |-> 0, inline |-> 0, done |-> 0,
              since |-> 0, regs |-> 0]
  /\ before_next_write_callback_ = 0
  /\ after_next_write_callback_ = 0
  /\ wtask = [active |-> FALSE, before |-> 0, after |-> 0]
  /\ cb_runs = [id \in 1..MaxRegisters |->
                 [before |-> 0, after |-> 0, result |-> "none"]]
  /\ suppress_local = FALSE

\* A run that schedules work, fails and logs.
Init ==
  /\ Constructed
  /\ NoTestProgram
  /\ budget = [sched |-> MaxTasks, fail |-> MaxFails, log |-> MaxLogs,
               suppress |-> MaxSuppress, add |-> 0, get |-> 0, book |-> 0]

\* A run whose threads record and read generator dependencies.
DataInit ==
  /\ Constructed
  /\ NoTestProgram
  /\ budget = [sched |-> DataTasks, fail |-> 0, log |-> 0, suppress |-> 0,
               add |-> MaxAdds, get |-> MaxGets, book |-> 0]

\* A run whose threads use every operation that takes lock_.
LockInit ==
  /\ Constructed
  /\ NoTestProgram
  /\ budget = [sched |-> LockCalls, fail |-> LockCalls, log |-> 0,
               suppress |-> LockCalls, add |-> LockCalls, get |-> LockCalls,
               book |-> LockCalls]

(* ------------------------------ helpers -------------------------------- *)
\* Where a thread is when it is between two calls: the main program before
\* or after Run, a worker inside the work body of its task.
Home(t) == IF t = Main THEN (IF phase = "pre" THEN "pre" ELSE "post") ELSE "work"
AtHome(t) == pc[t] = Home(t) /\ (t = Main => phase \in {"pre", "post"})

Goto(t, p) == pc' = [pc EXCEPT ![t] = p]
Return(t) == Goto(t, Home(t))

\* MsgLoop: the tasks posted and not yet dequeued, oldest first.
task_queue_ == SubSeq(posted, ran + 1, Len(posted))

\* MsgLoop::PostTask: append to the queue; "by" tags the posting thread.
PostTask(t, kind, a) == posted' = Append(posted, [kind |-> kind, a |-> a, by |-> t])

\* MsgLoop::PostQuit: the quit is a task of its own, behind the ones queued.
PostQuit(t) == PostTask(t, "Quit", 0)

\* base::AutoLock: the constructor blocks until the lock is free.
Acquire(l, t) == l = NoThread

(* ------------------- ScheduleWork and the pool task -------------------- *)
\* ScheduleWork without its IncrementWorkCount.
ScheduleWork_Increment_Missing(t) ==
  /\ AtHome(t)
  /\ calls.sched < budget.sched
  /\ calls' = [calls EXCEPT !.sched = @ + 1]
  /\ Goto(t, "sw_pool_inc")
  /\ UNCHANGED <<arg, locks, counts, flags, loopv, pool_queue,
                 output_, mainv, datav, ghost>>

\* ScheduleWork, line 70: IncrementWorkCount().  Any thread between two
\* calls may make the call while the scheduler is alive.
ScheduleWork_Increment(t) ==
  /\ AtHome(t)
  /\ calls.sched < budget.sched
  /\ calls' = [calls EXCEPT !.sched = @ + 1]
  /\ work_count_' = work_count_ + 1
  /\ Goto(t, "sw_pool_inc")
  /\ UNCHANGED <<arg, locks, pool_work_count_, flags, loopv, pool_queue,
                 output_, mainv, datav, ghost>>

\* ScheduleWork, line 71: pool_work_count_.Increment().
ScheduleWork_PoolIncrement(t) ==
  /\ pc[t] = "sw_pool_inc"
  /\ pool_work_count_' = pool_work_count_ + 1
  /\ Goto(t, "sw_post")
  /\ UNCHANGED <<arg, locks, work_count_, flags, loopv, pool_queue, output_,
                 mainv, datav, calls, ghost>>

\* ScheduleWork, lines 72-81: worker_pool_.PostTask(lambda).
ScheduleWork_PostTask(t) ==
  /\ pc[t] = "sw_post"
  /\ pool_queue' = pool_queue + 1
  /\ Return(t)
  /\ UNCHANGED <<arg, locks, counts, flags, loopv, output_, mainv, datav,
                 calls, ghost>>

\* The worker pool: an idle worker starts a queued task; line 74,
\* std::move(work).Run(), begins.  The workers are interchangeable, so the
\* task goes to the idle worker of lowest index.
Worker_TakeTask(t) ==
  /\ t \in Workers
  /\ pc[t] = "free"
  /\ \A u \in Workers : u < t => pc[u] # "free"
  /\ pool_queue > 0
  /\ pool_queue' = pool_queue - 1
  /\ Goto(t, "work")
  /\ UNCHANGED <<arg, locks, counts, flags, loopv, output_, mainv, datav,
                 calls, ghost>>

\* Line 74: the work body returns; the lambda goes on to line 75.
Task_WorkReturns(t) ==
  /\ t \in Workers
  /\ pc[t] = "work"
  /\ Goto(t, "dwc")
  /\ UNCHANGED <<arg, locks, counts, flags, loopv, pool_queue, output_,
                 mainv, datav, calls, ghost>>

\* DecrementWorkCount without the test: OnComplete is posted by every call.
DecrementWorkCount_AlwaysPosts(t) ==
  /\ pc[t] = "dwc"
  /\ work_count_' = work_count_ - 1
  /\ zero_decs' = IF work_count_' = 0 THEN zero_decs + 1 ELSE zero_decs
  /\ Goto(t, "dwc_post")
  /\ UNCHANGED <<arg, locks, pool_work_count_, flags, loopv, pool_queue,
                 output_, mainv, datav, calls, latched, budget, add_log, extv>>

\* DecrementWorkCount with the test inverted: OnComplete is posted when the
\* count did not reach zero.
DecrementWorkCount_Inverted(t) ==
  /\ pc[t] = "dwc"
  /\ work_count_' = work_count_ - 1
  /\ IF work_count_' = 0
       THEN zero_decs' = zero_decs + 1 /\ Goto(t, "pool_dec")
       ELSE zero_decs' = zero_decs /\ Goto(t, "dwc_post")
  /\ UNCHANGED <<arg, locks, pool_work_count_, flags, loopv, pool_queue,
                 output_, mainv, datav, calls, latched, budget, add_log, extv>>

\* DecrementWorkCount, line 154: work_count_.Decrement() returns false when
\* the count reached zero, and only then is OnComplete posted.
DecrementWorkCount(t) ==
  /\ pc[t] = "dwc"
  /\ work_count_' = work_count_ - 1
  /\ IF work_count_' = 0
       THEN zero_decs' = zero_decs + 1 /\ Goto(t, "dwc_post")
       ELSE zero_decs' = zero_decs /\ Goto(t, "pool_dec")
  /\ UNCHANGED <<arg, locks, pool_work_count_, flags, loopv, pool_queue,
                 output_, mainv, datav, calls, latched, budget, add_log, extv>>

\* DecrementWorkCount, lines 155-156: PostTask(OnComplete).
DecrementWorkCount_Post(t) ==
  /\ pc[t] = "dwc_post"
  /\ PostTask(t, "OnComplete", 0)
  /\ Goto(t, "pool_dec")
  /\ UNCHANGED <<arg, locks, counts, flags, ran, pool_queue, output_, mainv,
                 datav, calls, ghost>>

\* The lambda, line 76: pool_work_count_.Decrement(); on zero the worker
\* goes on to signal the condition variable.
Task_PoolDecrement(t) ==
  /\ pc[t] = "pool_dec"
  /\ pool_work_count_' = pool_work_count_ - 1
  /\ Goto(t, IF pool_work_count_' = 0 THEN "sig_lock" ELSE "free")
  /\ UNCHANGED <<arg, locks, work_count_, flags, loopv, pool_queue, output_,
                 mainv, datav, calls, ghost>>

\* The lambda, line 77: AutoLock auto_lock(pool_work_count_lock_).
Task_SignalLock(t) ==
  /\ pc[t] = "sig_lock"
  /\ Acquire(pool_work_count_lock_, t)
  /\ pool_work_count_lock_' = t
  /\ Goto(t, "sig")
  /\ UNCHANGED <<arg, lock_, counts, flags, loopv, pool_queue, output_,
                 mainv, datav, calls, ghost>>

\* Task_Signal with the Signal lost: nobody is woken.
Task_Signal_Lost(t) ==
  /\ pc[t] = "sig"
  /\ pool_work_count_lock_' = NoThread
  /\ Goto(t, "free")
  /\ UNCHANGED <<arg, lock_, counts, flags, loopv, pool_queue, output_,
                 mainv, datav, calls, ghost>>

\* The lambda, lines 78-79: pool_work_count_cv_.Signal() wakes the thread
\* blocked in Wait, if there is one; the AutoLock is released at the brace.
Task_Signal(t) ==
  /\ pc[t] = "sig"
  /\ pool_work_count_lock_' = NoThread
  /\ pc' = [u \in Threads |->
              IF u = t THEN "free"
              ELSE IF pc[u] = "wait_cv" THEN "wait_wake" ELSE pc[u]]
  /\ UNCHANGED <<arg, lock_, counts, flags, loopv, pool_queue, output_,
                 mainv, datav, calls, ghost>>

(* ----------------------- Log and FailWithError ------------------------- *)
\* Log writing the message itself, on the calling thread.
Log_Direct(t) ==
  /\ AtHome(t)
  /\ calls.log < budget.log
  /\ calls' = [calls EXCEPT !.log = @ + 1]
  /\ output_' = Append(output_, [kind |-> "log", a |-> 0, by |-> t])
  /\ UNCHANGED <<pc, arg, locks, counts, flags, loopv, pool_queue,
                 mainv, datav, ghost>>

\* Log, lines 50-53: PostTask(LogOnMainThread); no lock is taken.
Log(t) ==
  /\ AtHome(t)
  /\ calls.log < budget.log
  /\ calls' = [calls EXCEPT !.log = @ + 1]
  /\ PostTask(t, "Log", 0)
  /\ UNCHANGED <<pc, arg, locks, counts, flags, ran, pool_queue, output_,
                 mainv, datav, ghost>>

\* FailWithError, line 58: AutoLock lock(lock_).  Each call carries an Err
\* of its own, numbered by the order of the calls.
FailWithError_Lock(t) ==
  /\ AtHome(t)
  /\ calls.fail < budget.fail
  /\ calls' = [calls EXCEPT !.fail = @ + 1]
  /\ Acquire(lock_, t)
  /\ lock_' = t
  /\ arg' = [arg EXCEPT ![t] = calls.fail + 1]
  /\ Goto(t, "fail_cs")
  /\ UNCHANGED <<pool_work_count_lock_, counts, flags, loopv, pool_queue,
                 output_, mainv, datav, ghost>>

\* FailWithError that, after shutdown, leaves is_failed_ alone and still
\* posts the task.
FailWithError_Latch_PostsAfterShutdown(t) ==
  /\ pc[t] = "fail_cs"
  /\ lock_' = NoThread
  /\ IF is_failed_
       THEN /\ arg' = [arg EXCEPT ![t] = 0]
            /\ Return(t)
            /\ UNCHANGED <<is_failed_, latched>>
       ELSE IF has_been_shutdown_
       THEN /\ Goto(t, "fail_post")
            /\ UNCHANGED <<arg, is_failed_, latched>>
       ELSE /\ is_failed_' = TRUE
            /\ latched' = arg[t]
            /\ Goto(t, "fail_post")
            /\ UNCHANGED arg
  /\ UNCHANGED <<pool_work_count_lock_, counts, has_been_shutdown_,
                 suppress_stdout_for_testing_, loopv, pool_queue, output_,
                 mainv, datav, calls, zero_decs, budget, add_log, extv>>

\* FailWithError that does not look at has_been_shutdown_.
FailWithError_Latch_IgnoresShutdown(t) ==
  /\ pc[t] = "fail_cs"
  /\ lock_' = NoThread
  /\ IF is_failed_
       THEN /\ arg' = [arg EXCEPT ![t] = 0]
            /\ Return(t)
            /\ UNCHANGED <<is_failed_, latched>>
       ELSE /\ is_failed_' = TRUE
            /\ latched' = arg[t]
            /\ Goto(t, "fail_post")
            /\ UNCHANGED arg
  /\ UNCHANGED <<pool_work_count_lock_, counts, has_been_shutdown_,
                 suppress_stdout_for_testing_, loopv, pool_queue, output_,
                 mainv, datav, calls, zero_decs, budget, add_log, extv>>

\* FailWithError that does not look at is_failed_.
FailWithError_Latch_IgnoresFailed(t) ==
  /\ pc[t] = "fail_cs"
  /\ lock_' = NoThread
  /\ IF has_been_shutdown_
       THEN /\ arg' = [arg EXCEPT ![t] = 0]
            /\ Return(t)
            /\ UNCHANGED <<is_failed_, latched>>
       ELSE /\ is_failed_' = TRUE
            /\ latched' = arg[t]
            /\ Goto(t, "fail_post")
            /\ UNCHANGED arg
  /\ UNCHANGED <<pool_work_count_lock_, counts, has_been_shutdown_,
                 suppress_stdout_for_testing_, loopv, pool_queue, output_,
                 mainv, datav, calls, zero_decs, budget, add_log, extv>>

\* FailWithError whose lock scope reaches over the PostTask: the lock is
\* released only on the early return.
FailWithError_Latch_KeepsLock(t) ==
  /\ pc[t] = "fail_cs"
  /\ IF is_failed_ \/ has_been_shutdown_
       THEN /\ lock_' = NoThread
            /\ arg' = [arg EXCEPT ![t] = 0]
            /\ Return(t)
            /\ UNCHANGED <<is_failed_, latched>>
       ELSE /\ is_failed_' = TRUE
            /\ latched' = arg[t]
            /\ Goto(t, "fail_post")
            /\ UNCHANGED <<arg, lock_>>
  /\ UNCHANGED <<pool_work_count_lock_, counts, has_been_shutdown_,
                 suppress_stdout_for_testing_, loopv, pool_queue, output_,
                 mainv, datav, calls, zero_decs, budget, add_log, extv>>

\* FailWithError, lines 60-63: return if an error was seen or the scheduler
\* was shut down, else set is_failed_; the lock is released either way.
FailWithError_Latch(t) ==
  /\ pc[t] = "fail_cs"
  /\ lock_' = NoThread
  /\ IF is_failed_ \/ has_been_shutdown_
       THEN /\ arg' = [arg EXCEPT ![t] = 0]
            /\ Return(t)
            /\ UNCHANGED <<is_failed_, latched>>
       ELSE /\ is_failed_' = TRUE
            /\ latched' = arg[t]
            /\ Goto(t, "fail_post")
            /\ UNCHANGED arg
  /\ UNCHANGED <<pool_work_count_lock_, counts, has_been_shutdown_,
                 suppress_stdout_for_testing_, loopv, pool_queue, output_,
                 mainv, datav, calls, zero_decs, budget, add_log, extv>>

\* FailWithError, lines 65-66: PostTask(FailWithErrorOnMainThread, err).
FailWithError_Post(t) ==
  /\ pc[t] = "fail_post"
  /\ PostTask(t, "Fail", arg[t])
  /\ arg' = [arg EXCEPT ![t] = 0]
  /\ Return(t)
  /\ UNCHANGED <<locks, counts, flags, ran, pool_queue, output_, mainv,
                 datav, calls, ghost>>

(* ------------------------ lock-guarded bookkeeping --------------------- *)
\* AddGenDependency without the AutoLock.
AddGenDependency_Lock_NoLock(t, f) ==
  /\ AtHome(t)
  /\ calls.add < budget.add
  /\ calls' = [calls EXCEPT !.add = @ + 1]
  /\ arg' = [arg EXCEPT ![t] = f]
  /\ Goto(t, "add_cs")
  /\ UNCHANGED <<locks, counts, flags, loopv, pool_queue, output_, mainv,
                 datav, ghost>>

\* AddGenDependency, line 85: AutoLock lock(lock_).
AddGenDependency_Lock(t, f) ==
  /\ AtHome(t)
  /\ calls.add < budget.add
  /\ calls' = [calls EXCEPT !.add = @ + 1]
  /\ Acquire(lock_, t)
  /\ lock_' = t
  /\ arg' = [arg EXCEPT ![t] = f]
  /\ Goto(t, "add_cs")
  /\ UNCHANGED <<pool_work_count_lock_, counts, flags, loopv, pool_queue,
                 output_, mainv, datav, ghost>>

\* AddGenDependency that inserts at the front of the vector.
AddGenDependency_Push_Front(t) ==
  /\ pc[t] = "add_cs"
  /\ gen_dependencies_' = <<[file |-> arg[t], by |-> t]>> \o gen_dependencies_
  /\ add_log' = Append(add_log, [file |-> arg[t], by |-> t])
  /\ lock_' = NoThread
  /\ arg' = [arg EXCEPT ![t] = 0]
  /\ Return(t)
  /\ UNCHANGED <<pool_work_count_lock_, counts, flags, loopv, pool_queue,
                 output_, mainv, got, bookv, calls, latched, zero_decs, budget, extv>>

\* AddGenDependency, lines 86-87: push_back(file), then the lock is released.
AddGenDependency_Push(t) ==
  /\ pc[t] = "add_cs"
  /\ gen_dependencies_' = Append(gen_dependencies_, [file |-> arg[t], by |-> t])
  /\ add_log' = Append(add_log, [file |-> arg[t], by |-> t])
  /\ lock_' = NoThread
  /\ arg' = [arg EXCEPT ![t] = 0]
  /\ Return(t)
  /\ UNCHANGED <<pool_work_count_lock_, counts, flags, loopv, pool_queue,
                 output_, mainv, got, bookv, calls, latched, zero_decs, budget, extv>>

\* GetGenDependencies, line 90: AutoLock lock(lock_).
GetGenDependencies_Lock(t) ==
  /\ AtHome(t)
  /\ calls.get < budget.get
  /\ calls' = [calls EXCEPT !.get = @ + 1]
  /\ Acquire(lock_, t)
  /\ lock_' = t
  /\ Goto(t, "get_cs")
  /\ UNCHANGED <<arg, pool_work_count_lock_, counts, flags, loopv,
                 pool_queue, output_, mainv, datav, ghost>>

\* GetGenDependencies, lines 91-92: return a copy of the vector.
GetGenDependencies_Copy(t) ==
  /\ pc[t] = "get_cs"
  /\ got' = gen_dependencies_
  /\ lock_' = NoThread
  /\ Return(t)
  /\ UNCHANGED <<arg, pool_work_count_lock_, counts, flags, loopv,
                 pool_queue, output_, mainv, gen_dependencies_, bookv, calls,
                 ghost>>

\* SuppressStdoutForTesting, line 161: AutoLock lock(lock_).
SuppressStdoutForTesting_Lock(t, b) ==
  /\ AtHome(t)
  /\ calls.suppress < budget.suppress
  /\ calls' = [calls EXCEPT !.suppress = @ + 1]
  /\ Acquire(lock_, t)
  /\ lock_' = t
  /\ arg' = [arg EXCEPT ![t] = IF b THEN 1 ELSE 0]
  /\ Goto(t, "suppress_cs")
  /\ UNCHANGED <<pool_work_count_lock_, counts, flags, loopv, pool_queue,
                 output_, mainv, datav, ghost>>

\* SuppressStdoutForTesting, lines 162-163: set the flag, release the lock.
SuppressStdoutForTesting_Set(t) ==
  /\ pc[t] = "suppress_cs"
  /\ suppress_stdout_for_testing_' = (arg[t] = 1)
  /\ lock_' = NoThread
  /\ arg' = [arg EXCEPT ![t] = 0]
  /\ Return(t)
  /\ UNCHANGED <<pool_work_count_lock_, counts, is_failed_,
                 has_been_shutdown_, loopv, pool_queue, output_, mainv,
                 datav, calls, ghost>>

\* Target::write_runtime_deps_output(): the file a target's runtime deps
\* are written to; here target 1 writes file 2 and target 2 writes file 1.
write_runtime_deps_output(target) == 3 - target

\* A bookkeeping operation begins: AutoLock lock(lock_) at lines 95, 101,
\* 106, 111, 117, 129 and 144.
BookLock(t, a, p) ==
  /\ AtHome(t)
  /\ calls.book < budget.book
  /\ calls' = [calls EXCEPT !.book = @ + 1]
  /\ Acquire(lock_, t)
  /\ lock_' = t
  /\ arg' = [arg EXCEPT ![t] = a]
  /\ Goto(t, p)
  /\ UNCHANGED <<pool_work_count_lock_, counts, flags, loopv, pool_queue,
                 output_, mainv, datav, ghost>>

\* A bookkeeping operation ends: the AutoLock is released and the call returns.
BookUnlock(t) ==
  /\ lock_' = NoThread
  /\ arg' = [arg EXCEPT ![t] = 0]
  /\ Return(t)
  /\ UNCHANGED <<pool_work_count_lock_, counts, flags, loopv, pool_queue,
                 output_, mainv, gen_dependencies_, got, calls, ghost>>

\* AddWrittenFile, line 95.
AddWrittenFile_Lock(t, f) == BookLock(t, f, "written_cs")

\* AddWrittenFile, lines 96-97: written_files_.push_back(file).
AddWrittenFile_Push(t) ==
  /\ pc[t] = "written_cs"
  /\ written_files_' = Append(written_files_, arg[t])
  /\ written_log' = Append(written_log, [file |-> arg[t], at |-> Len(unknown_log)])
  /\ BookUnlock(t)
  /\ UNCHANGED <<unknown_generated_inputs_, write_runtime_deps_targets_,
                 got_unknown, got_targets, got_generated, unknown_log, rdeps_log>>

\* The insert of a std::map: a pair whose key is present is not inserted.
MultimapInsert_Unique(m, pair) ==
  IF \E i \in 1..Len(m) : m[i][1] = pair[1] THEN m
  ELSE LET n == Cardinality({i \in 1..Len(m) : m[i][1] <= pair[1]})
       IN  SubSeq(m, 1, n) \o <<pair>> \o SubSeq(m, n + 1, Len(m))

\* std::multimap::insert: the pair goes behind the pairs whose key is not
\* greater, so equal keys keep their order of insertion.
MultimapInsert(m, pair) ==
  LET n == Cardinality({i \in 1..Len(m) : m[i][1] <= pair[1]})
  IN  SubSeq(m, 1, n) \o <<pair>> \o SubSeq(m, n + 1, Len(m))

\* std::multimap::erase(key): every pair with the key goes.
MultimapErase(m, key) == SelectSeq(m, LAMBDA pair : pair[1] # key)

\* AddUnknownGeneratedInput, line 101.
AddUnknownGeneratedInput_Lock(t, target, f) ==
  BookLock(t, <<f, target>>, "unknown_cs")

\* AddUnknownGeneratedInput, lines 102-103: insert(make_pair(file, target)).
AddUnknownGeneratedInput_Insert(t) ==
  /\ pc[t] = "unknown_cs"
  /\ unknown_generated_inputs_' = MultimapInsert(unknown_generated_inputs_, arg[t])
  /\ unknown_log' = Append(unknown_log, arg[t])
  /\ BookUnlock(t)
  /\ UNCHANGED <<written_files_, write_runtime_deps_targets_, got_unknown,
                 got_targets, got_generated, written_log, rdeps_log>>

\* AddWriteRuntimeDepsTarget, line 106.
AddWriteRuntimeDepsTarget_Lock(t, target) == BookLock(t, target, "rdeps_cs")

\* AddWriteRuntimeDepsTarget, lines 107-108: push_back(target).
AddWriteRuntimeDepsTarget_Push(t) ==
  /\ pc[t] = "rdeps_cs"
  /\ write_runtime_deps_targets_' = Append(write_runtime_deps_targets_, arg[t])
  /\ rdeps_log' = rdeps_log \cup {arg[t]}
  /\ BookUnlock(t)
  /\ UNCHANGED <<written_files_, unknown_generated_inputs_, got_unknown,
                 got_targets, got_generated, unknown_log, written_log>>

\* GetWriteRuntimeDepsTargets, line 111.
GetWriteRuntimeDepsTargets_Lock(t) == BookLock(t, 0, "get_rdeps_cs")

\* GetWriteRuntimeDepsTargets, lines 112-113: return a copy.
GetWriteRuntimeDepsTargets_Copy(t) ==
  /\ pc[t] = "get_rdeps_cs"
  /\ got_targets' = write_runtime_deps_targets_
  /\ BookUnlock(t)
  /\ UNCHANGED <<written_files_, unknown_generated_inputs_,
                 write_runtime_deps_targets_, got_unknown, got_generated,
                 unknown_log, written_log, rdeps_log>>

\* The search giving up at the first target that does not match.
FileGeneratedByWriteRuntimeDeps_FirstOnly(file) ==
  /\ write_runtime_deps_targets_ # <<>>
  /\ file = write_runtime_deps_output(write_runtime_deps_targets_[1])

\* IsFileGeneratedByWriteRuntimeDeps, lines 119-124: the brute-force search.
FileGeneratedByWriteRuntimeDeps(file) ==
  \E i \in 1..Len(write_runtime_deps_targets_) :
    file = write_runtime_deps_output(write_runtime_deps_targets_[i])

\* IsFileGeneratedByWriteRuntimeDeps, line 117.
IsFileGeneratedByWriteRuntimeDeps_Lock(t, f) == BookLock(t, f, "is_gen_cs")

\* IsFileGeneratedByWriteRuntimeDeps, lines 118-125.
IsFileGeneratedByWriteRuntimeDeps_Search(t) ==
  /\ pc[t] = "is_gen_cs"
  /\ got_generated' = IF FileGeneratedByWriteRuntimeDeps(arg[t]) THEN "true" ELSE "false"
  /\ BookUnlock(t)
  /\ UNCHANGED <<written_files_, unknown_generated_inputs_,
                 write_runtime_deps_targets_, got_unknown, got_targets,
                 unknown_log, written_log, rdeps_log>>

\* GetUnknownGeneratedInputs, lines 136-138: a copy of the map with every
\* written file erased, one file after the other.
RECURSIVE EraseAll(_, _)
EraseAll(m, files) ==
  IF files = <<>> THEN m
  ELSE EraseAll(MultimapErase(m, Head(files)), Tail(files))

\* GetUnknownGeneratedInputs, line 129.
GetUnknownGeneratedInputs_Lock(t) == BookLock(t, 0, "get_unknown_cs")

\* GetUnknownGeneratedInputs, lines 136-141.
GetUnknownGeneratedInputs_Filter(t) ==
  /\ pc[t] = "get_unknown_cs"
  /\ got_unknown' = EraseAll(unknown_generated_inputs_, written_files_)
  /\ BookUnlock(t)
  /\ UNCHANGED <<written_files_, unknown_generated_inputs_,
                 write_runtime_deps_targets_, got_targets, got_generated,
                 unknown_log, written_log, rdeps_log>>

\* ClearUnknownGeneratedInputsAndWrittenFiles, line 144.
ClearUnknownGeneratedInputsAndWrittenFiles_Lock(t) == BookLock(t, 0, "clear_cs")

\* ClearUnknownGeneratedInputsAndWrittenFiles, lines 145-147.
ClearUnknownGeneratedInputsAndWrittenFiles_Clear(t) ==
  /\ pc[t] = "clear_cs"
  /\ unknown_generated_inputs_' = <<>>
  /\ written_files_' = <<>>
  /\ unknown_log' = <<>>
  /\ written_log' = <<>>
  /\ BookUnlock(t)
  /\ UNCHANGED <<write_runtime_deps_targets_, got_unknown, got_targets,
                 got_generated, rdeps_log>>

(* ------------------- Run, the main loop and its tasks ------------------ *)
\* The head of the main loop's queue.
HasTask(kind) == ran < Len(posted) /\ posted[ran + 1].kind = kind

\* Run, line 37: the main program calls Run, which enters MsgLoop::Run.
Run_Call(t) ==
  /\ t = Main
  /\ pc[t] = "pre"
  /\ phase = "pre"
  /\ phase' = "run"
  /\ Goto(t, "loop")
  /\ UNCHANGED <<arg, locks, counts, flags, loopv, pool_queue, output_,
                 local_is_failed, run_result, destroyed, suppress_local, datav, calls,
                 ghost>>

\* LogOnMainThread, lines 165-169, run by the loop: writes the message.
LogOnMainThread(t) ==
  /\ t = Main
  /\ pc[t] = "loop"
  /\ HasTask("Log")
  /\ ran' = ran + 1
  /\ output_' = Append(output_, [kind |-> "log", a |-> 0, by |-> t])
  /\ UNCHANGED <<pc, arg, locks, counts, flags, posted, pool_queue, mainv,
                 datav, calls, ghost>>

\* OnComplete, lines 182-186, run by the loop: PostQuit().
OnComplete(t) ==
  /\ t = Main
  /\ pc[t] = "loop"
  /\ HasTask("OnComplete")
  /\ ran' = ran + 1
  /\ posted' = Append(posted, [kind |-> "Quit", a |-> 0, by |-> t])
  /\ UNCHANGED <<pc, arg, locks, counts, flags, pool_queue, output_, mainv,
                 datav, calls, ghost>>

\* The loop dequeues FailWithErrorOnMainThread(err), line 171.
FailWithErrorOnMainThread_Start(t) ==
  /\ t = Main
  /\ pc[t] = "loop"
  /\ HasTask("Fail")
  /\ ran' = ran + 1
  /\ arg' = [arg EXCEPT ![t] = posted[ran + 1].a]
  /\ Goto(t, "fweomt_lock")
  /\ UNCHANGED <<locks, counts, flags, posted, pool_queue, output_, mainv,
                 datav, calls, ghost>>

\* FailWithErrorOnMainThread, line 174: AutoLock lock(lock_).
FailWithErrorOnMainThread_Lock(t) ==
  /\ pc[t] = "fweomt_lock"
  /\ Acquire(lock_, t)
  /\ lock_' = t
  /\ Goto(t, "fweomt_cs")
  /\ UNCHANGED <<arg, pool_work_count_lock_, counts, flags, loopv,
                 pool_queue, output_, mainv, datav, calls, ghost>>

\* FailWithErrorOnMainThread, lines 175-176: copy the flag into the local
\* and release the lock.
FailWithErrorOnMainThread_Read(t) ==
  /\ pc[t] = "fweomt_cs"
  /\ suppress_local' = suppress_stdout_for_testing_
  /\ lock_' = NoThread
  /\ Goto(t, "fweomt_print")
  /\ UNCHANGED <<arg, pool_work_count_lock_, counts, flags, loopv,
                 pool_queue, output_, phase, local_is_failed, run_result,
                 destroyed, datav, calls, ghost>>

\* FailWithErrorOnMainThread, lines 177-178: err.PrintToStdout() unless the
\* local says stdout is suppressed.
FailWithErrorOnMainThread_Print(t) ==
  /\ pc[t] = "fweomt_print"
  /\ output_' = IF suppress_local THEN output_
                ELSE Append(output_, [kind |-> "err", a |-> arg[t], by |-> t])
  /\ Goto(t, "fweomt_quit")
  /\ UNCHANGED <<arg, locks, counts, flags, loopv, pool_queue, mainv, datav,
                 calls, ghost>>

\* FailWithErrorOnMainThread, line 179: PostQuit(); back to the loop.
FailWithErrorOnMainThread_Quit(t) ==
  /\ pc[t] = "fweomt_quit"
  /\ PostQuit(t)
  /\ arg' = [arg EXCEPT ![t] = 0]
  /\ Goto(t, "loop")
  /\ UNCHANGED <<locks, counts, flags, ran, pool_queue, output_, mainv,
                 datav, calls, ghost>>

\* The loop dequeues a quit: MsgLoop::Run returns to line 38.
MsgLoop_Quit(t) ==
  /\ t = Main
  /\ pc[t] = "loop"
  /\ HasTask("Quit")
  /\ ran' = ran + 1
  /\ Goto(t, "run_lock")
  /\ UNCHANGED <<arg, locks, counts, flags, posted, pool_queue, output_,
                 mainv, datav, calls, ghost>>

\* Run, line 40: AutoLock lock(lock_).
Run_Lock(t) ==
  /\ pc[t] = "run_lock"
  /\ Acquire(lock_, t)
  /\ lock_' = t
  /\ Goto(t, "run_cs")
  /\ UNCHANGED <<arg, pool_work_count_lock_, counts, flags, loopv,
                 pool_queue, output_, mainv, datav, calls, ghost>>

\* Run without the inner scope: lock_ is still held in WaitForPoolTasks.
Run_Shutdown_KeepsLock(t) ==
  /\ pc[t] = "run_cs"
  /\ local_is_failed' = is_failed_
  /\ has_been_shutdown_' = TRUE
  /\ Goto(t, "wait_lock")
  /\ UNCHANGED <<arg, locks, counts, is_failed_,
                 suppress_stdout_for_testing_, loopv, pool_queue, output_,
                 phase, run_result, destroyed, suppress_local, datav, calls, ghost>>

\* Run, lines 41-43: read is_failed_, set has_been_shutdown_, release the
\* lock; line 46 then calls WaitForPoolTasks.
Run_Shutdown(t) ==
  /\ pc[t] = "run_cs"
  /\ local_is_failed' = is_failed_
  /\ has_been_shutdown_' = TRUE
  /\ lock_' = NoThread
  /\ Goto(t, "wait_lock")
  /\ UNCHANGED <<arg, pool_work_count_lock_, counts, is_failed_,
                 suppress_stdout_for_testing_, loopv, pool_queue, output_,
                 phase, run_result, destroyed, suppress_local, datav, calls, ghost>>

\* WaitForPoolTasks, line 189: AutoLock lock(pool_work_count_lock_).
WaitForPoolTasks_Lock(t) ==
  /\ pc[t] = "wait_lock"
  /\ Acquire(pool_work_count_lock_, t)
  /\ pool_work_count_lock_' = t
  /\ Goto(t, "wait_check")
  /\ UNCHANGED <<arg, lock_, counts, flags, loopv, pool_queue, output_,
                 mainv, datav, calls, ghost>>

\* The loop condition of WaitForPoolTasks inverted.
PoolTasksDone_Inverted == pool_work_count_ # 0

\* WaitForPoolTasks, line 190: the loop condition, pool_work_count_.IsZero().
PoolTasksDone == pool_work_count_ = 0

\* WaitForPoolTasks without its loop: it returns at once.
WaitForPoolTasks_Check_NoWait(t) ==
  /\ pc[t] = "wait_check"
  /\ pool_work_count_lock_' = NoThread
  /\ Goto(t, IF phase = "run" THEN "run_ret" ELSE "dtor_ret")
  /\ UNCHANGED <<arg, lock_, counts, flags, loopv, pool_queue, output_,
                 mainv, datav, calls, ghost>>

\* WaitForPoolTasks, lines 190-192: leave when the count is zero, releasing
\* the lock; else Wait(), which releases the lock while the thread blocks.
WaitForPoolTasks_Check(t) ==
  /\ pc[t] = "wait_check"
  /\ pool_work_count_lock_' = NoThread
  /\ Goto(t, IF PoolTasksDone
               THEN (IF phase = "run" THEN "run_ret" ELSE "dtor_ret")
               ELSE "wait_cv")
  /\ UNCHANGED <<arg, lock_, counts, flags, loopv, pool_queue, output_,
                 mainv, datav, calls, ghost>>

\* ConditionVariable::Wait may return without a Signal (a spurious wakeup).
ConditionVariable_SpuriousWakeup(t) ==
  /\ pc[t] = "wait_cv"
  /\ Goto(t, "wait_wake")
  /\ UNCHANGED <<arg, locks, counts, flags, loopv, pool_queue, output_,
                 mainv, datav, calls, ghost>>

\* ConditionVariable::Wait, woken: it takes the lock again before returning.
WaitForPoolTasks_Reacquire(t) ==
  /\ pc[t] = "wait_wake"
  /\ Acquire(pool_work_count_lock_, t)
  /\ pool_work_count_lock_' = t
  /\ Goto(t, "wait_check")
  /\ UNCHANGED <<arg, lock_, counts, flags, loopv, pool_queue, output_,
                 mainv, datav, calls, ghost>>

\* Run, line 47: return !local_is_failed.
Run_Return(t) ==
  /\ pc[t] = "run_ret"
  /\ run_result' = IF local_is_failed THEN "false" ELSE "true"
  /\ phase' = "post"
  /\ Goto(t, "post")
  /\ UNCHANGED <<arg, locks, counts, flags, loopv, pool_queue, output_,
                 local_is_failed, destroyed, suppress_local, datav, calls, ghost>>

\* ~Scheduler, line 32: the main program destroys the scheduler.
Destructor_Call(t) ==
  /\ t = Main
  /\ pc[t] = "post"
  /\ phase = "post"
  /\ phase' = "dtor"
  /\ Goto(t, "wait_lock")
  /\ UNCHANGED <<arg, locks, counts, flags, loopv, pool_queue, output_,
                 local_is_failed, run_result, destroyed, suppress_local, datav, calls,
                 ghost>>

\* ~Scheduler, lines 33-34: g_scheduler = nullptr; the object is gone.
Destructor_Return(t) ==
  /\ pc[t] = "dtor_ret"
  /\ destroyed' = TRUE
  /\ phase' = "done"
  /\ Goto(t, "done")
  /\ UNCHANGED <<arg, locks, counts, flags, loopv, pool_queue, output_,
                 local_is_failed, run_result, suppress_local, datav, calls, ghost>>

(* --------------------------- the specification ------------------------- *)
\* The steps of thread t that schedule, run and wait for work.
SchedStep(t) ==
  \/ ScheduleWork_Increment(t)
  \/ ScheduleWork_PoolIncrement(t)
  \/ ScheduleWork_PostTask(t)
  \/ Worker_TakeTask(t)
  \/ Task_WorkReturns(t)
  \/ DecrementWorkCount(t)
  \/ DecrementWorkCount_Post(t)
  \/ Task_PoolDecrement(t)
  \/ Task_SignalLock(t)
  \/ Task_Signal(t)
  \/ Run_Call(t)
  \/ OnComplete(t)
  \/ MsgLoop_Quit(t)
  \/ Run_Lock(t)
  \/ Run_Shutdown(t)
  \/ WaitForPoolTasks_Lock(t)
  \/ WaitForPoolTasks_Check(t)
  \/ WaitForPoolTasks_Reacquire(t)
  \/ Run_Return(t)
  \/ Destructor_Call(t)
  \/ Destructor_Return(t)

\* The steps of thread t that report an error.
FailStep(t) ==
  \/ FailWithError_Lock(t)
  \/ FailWithError_Latch(t)
  \/ FailWithError_Post(t)
  \/ FailWithErrorOnMainThread_Start(t)
  \/ FailWithErrorOnMainThread_Lock(t)
  \/ FailWithErrorOnMainThread_Read(t)
  \/ FailWithErrorOnMainThread_Print(t)
  \/ FailWithErrorOnMainThread_Quit(t)

\* The steps of thread t that set the testing flag.
SuppressStep(t) ==
  \/ \E b \in BOOLEAN : SuppressStdoutForTesting_Lock(t, b)
  \/ SuppressStdoutForTesting_Set(t)

\* The steps of thread t that log.
LogStep(t) ==
  \/ Log(t)
  \/ LogOnMainThread(t)

\* The steps of thread t on the generator dependencies.
DataStep(t) ==
  \/ \E f \in Files : AddGenDependency_Lock(t, f)
  \/ AddGenDependency_Push(t)
  \/ GetGenDependencies_Lock(t)
  \/ GetGenDependencies_Copy(t)

\* The steps of thread t on written files, unknown generated inputs and
\* write-runtime-deps targets.
BookStep(t) ==
  \/ \E f \in Files : AddWrittenFile_Lock(t, f)
  \/ AddWrittenFile_Push(t)
  \/ \E g \in Targets, f \in Files : AddUnknownGeneratedInput_Lock(t, g, f)
  \/ AddUnknownGeneratedInput_Insert(t)
  \/ \E g \in Targets : AddWriteRuntimeDepsTarget_Lock(t, g)
  \/ AddWriteRuntimeDepsTarget_Push(t)
  \/ GetWriteRuntimeDepsTargets_Lock(t)
  \/ GetWriteRuntimeDepsTargets_Copy(t)
  \/ \E f \in Files : IsFileGeneratedByWriteRuntimeDeps_Lock(t, f)
  \/ IsFileGeneratedByWriteRuntimeDeps_Search(t)
  \/ GetUnknownGeneratedInputs_Lock(t)
  \/ GetUnknownGeneratedInputs_Filter(t)
  \/ ClearUnknownGeneratedInputsAndWrittenFiles_Lock(t)
  \/ ClearUnknownGeneratedInputsAndWrittenFiles_Clear(t)

Next ==
  \E t \in Threads :
    \/ SchedStep(t)
    \/ ConditionVariable_SpuriousWakeup(t)
    \/ FailStep(t)
    \/ SuppressStep(t)
    \/ LogStep(t)

Spec == Init /\ [][Next]_vars

DataNext ==
  \E t \in Threads :
    \/ SchedStep(t)
    \/ ConditionVariable_SpuriousWakeup(t)
    \/ DataStep(t)

DataSpec == DataInit /\ [][DataNext]_vars

LockNext ==
  \E t \in Threads :
    \/ SchedStep(t)
    \/ ConditionVariable_SpuriousWakeup(t)
    \/ FailStep(t)
    \/ SuppressStep(t)
    \/ DataStep(t)
    \/ BookStep(t)

LockSpec == LockInit /\ [][LockNext]_vars

\* A run whose threads record written files and unknown generated inputs.
UnknownInit ==
  /\ Constructed
  /\ NoTestProgram
  /\ budget = [sched |-> UnknownTasks, fail |-> 0, log |-> 0, suppress |-> 0,
               add |-> 0, get |-> 0, book |-> MaxUnknownCalls]

\* The steps of thread t on written files and unknown generated inputs.
UnknownStep(t) ==
  \/ \E f \in Files : AddWrittenFile_Lock(t, f)
  \/ AddWrittenFile_Push(t)
  \/ \E g \in Targets, f \in Files : AddUnknownGeneratedInput_Lock(t, g, f)
  \/ AddUnknownGeneratedInput_Insert(t)
  \/ GetUnknownGeneratedInputs_Lock(t)
  \/ GetUnknownGeneratedInputs_Filter(t)
  \/ ClearUnknownGeneratedInputsAndWrittenFiles_Lock(t)
  \/ ClearUnknownGeneratedInputsAndWrittenFiles_Clear(t)

UnknownNext ==
  \E t \in Threads :
    \/ SchedStep(t)
    \/ ConditionVariable_SpuriousWakeup(t)
    \/ UnknownStep(t)

UnknownSpec == UnknownInit /\ [][UnknownNext]_vars

\* A run whose threads record and look up write-runtime-deps targets.
RdepsInit ==
  /\ Constructed
  /\ NoTestProgram
  /\ budget = [sched |-> RdepsTasks, fail |-> 0, log |-> 0, suppress |-> 0,
               add |-> 0, get |-> 0, book |-> MaxRdepsCalls]

\* The steps of thread t on the write-runtime-deps targets.
RdepsStep(t) ==
  \/ \E g \in Targets : AddWriteRuntimeDepsTarget_Lock(t, g)
  \/ AddWriteRuntimeDepsTarget_Push(t)
  \/ GetWriteRuntimeDepsTargets_Lock(t)
  \/ GetWriteRuntimeDepsTargets_Copy(t)
  \/ \E f \in Files : IsFileGeneratedByWriteRuntimeDeps_Lock(t, f)
  \/ IsFileGeneratedByWriteRuntimeDeps_Search(t)

RdepsNext ==
  \E t \in Threads :
    \/ SchedStep(t)
    \/ ConditionVariable_SpuriousWakeup(t)
    \/ RdepsStep(t)

RdepsSpec == RdepsInit /\ [][RdepsNext]_vars

\* A run whose threads log and fail.
LogInit ==
  /\ Constructed
  /\ NoTestProgram
  /\ budget = [sched |-> LogTasks, fail |-> LogFails, log |-> MaxLogCalls,
               suppress |-> 0, add |-> 0, get |-> 0, book |-> 0]

LogNext ==
  \E t \in Threads :
    \/ SchedStep(t)
    \/ ConditionVariable_SpuriousWakeup(t)
    \/ FailStep(t)
    \/ LogStep(t)

LogSpec == LogInit /\ [][LogNext]_vars

\* A run that schedules work and fails, for the properties of progress.
FairInit ==
  /\ Constructed
  /\ NoTestProgram
  /\ budget = [sched |-> FairTasks, fail |-> FairFails, log |-> 0,
               suppress |-> 0, add |-> 0, get |-> 0, book |-> 0]

FairStep(t) == SchedStep(t) \/ FailStep(t)

FairNext == \E t \in Threads : FairStep(t) \/ ConditionVariable_SpuriousWakeup(t)

\* Every posted task eventually runs: a thread that can take a step of the
\* code eventually takes one, and a thread waiting for a lock that is free
\* again and again eventually gets it.  Spurious wakeups may or may not
\* happen.
Fairness ==
  \A t \in Threads :
    /\ WF_vars(FairStep(t))
    /\ SF_vars(Task_SignalLock(t))
    /\ SF_vars(WaitForPoolTasks_Reacquire(t))

FairSpec == FairInit /\ [][FairNext]_vars /\ Fairness

(* ------------- the scope of TEST(FunctionTemplate, MarkUsed) ------------ *)
\* Every variable of the scheduler.
schedv == <<pc, arg, locks, counts, flags, loopv, pool_queue, output_, mainv,
            datav, calls, latched, zero_decs, budget, add_log>>

\* The names a scope has a value for.
Declared == {x \in Names : values_[x] # "none"}

\* Execute of an assignment such as "a = 1": Scope::SetValue stores the
\* value with its usage flag cleared.
Assign(x) ==
  /\ unused_err = "none"
  /\ stmts < MaxStmts
  /\ stmts' = stmts + 1
  /\ values_' = [values_ EXCEPT ![x] = "unused"]
  /\ hidden' = hidden \ {x}
  /\ UNCHANGED <<unused_err, reads, schedv, testv, filev, writerv>>

\* Execute of a statement that reads a variable, such as "print(a)" outside
\* a template: Scope::GetValue with counts_as_used sets the usage flag.
ReadVar(x) ==
  /\ unused_err = "none"
  /\ stmts < MaxStmts
  /\ x \in Declared
  /\ stmts' = stmts + 1
  /\ values_' = [values_ EXCEPT ![x] = "used"]
  /\ reads' = reads \cup {x}
  /\ UNCHANGED <<unused_err, hidden, schedv, testv, filev, writerv>>

\* Scope::MarkAllUsed: every value the scope holds counts as used.
MarkAllUsed(values) ==
  [x \in Names |-> IF values[x] = "none" THEN "none" ELSE "used"]

\* The template definition marking nothing.
TemplateDefinition_MarksNothing(refs) ==
  /\ unused_err = "none"
  /\ stmts < MaxStmts
  /\ stmts' = stmts + 1
  /\ values_' = values_
  /\ hidden' = hidden \cup (refs \cap Declared)
  /\ UNCHANGED <<unused_err, reads, schedv, testv, filev, writerv>>

\* Execute of template("templ") { ... } whose body refers to the names in
\* refs: the body is not run; the template captures the scope, and the
\* variables the scope holds are marked used.
TemplateDefinition(refs) ==
  /\ unused_err = "none"
  /\ stmts < MaxStmts
  /\ stmts' = stmts + 1
  /\ values_' = MarkAllUsed(values_)
  /\ hidden' = hidden \cup (refs \cap Declared)
  /\ UNCHANGED <<unused_err, reads, schedv, testv, filev, writerv>>

\* setup.scope()->CheckForUnusedVars(&err), line 27: the error names a
\* variable whose usage flag is clear; there is none when all are set.
CheckForUnusedVars ==
  /\ unused_err = "none"
  /\ \/ /\ \A x \in Declared : values_[x] = "used"
        /\ unused_err' = "ok"
     \/ \E x \in Declared :
          /\ values_[x] = "unused"
          /\ unused_err' = x
  /\ UNCHANGED <<values_, hidden, reads, stmts, schedv, testv, filev, writerv>>

\* The test: Execute runs the statements of the input, then the check.
ScopeNext ==
  \/ \E x \in Names : Assign(x)
  \/ \E x \in Names : ReadVar(x)
  \/ \E refs \in SUBSET Names : TemplateDefinition(refs)
  \/ CheckForUnusedVars

\* TestWithScope setup: an empty scope; the scheduler is not used.
ScopeInit ==
  /\ Constructed
  /\ NoTestProgram
  /\ suppress_stdout_for_testing_ = FALSE
  /\ budget = [sched |-> 0, fail |-> 0, log |-> 0, suppress |-> 0,
               add |-> 0, get |-> 0, book |-> 0]

ScopeSpec == ScopeInit /\ [][ScopeNext]_vars

(* ---------------- ImportantFileWriter::WriteFileAtomically -------------- *)
\* DeleteFile(tmp_file_path, false), lines 105, 71: the temp file is removed,
\* or the deletion fails; the code does not look at the result.
DeleteTmpFile ==
  \/ tmp_exists' = FALSE /\ delete_failed' = FALSE
  \/ tmp_exists' = TRUE /\ delete_failed' = TRUE

\* The call returns.
WFA_Return(result) ==
  /\ wfa_result' = result
  /\ wfa_pc' = "idle"

\* WriteFileAtomically(path, data, ...) is called, lines 77-79.
WFA_Call(length) ==
  /\ wfa_pc = "idle"
  /\ wfa_calls < MaxWrites
  /\ wfa_calls' = wfa_calls + 1
  /\ wfa_data' = [id |-> wfa_calls + 1, length |-> length]
  /\ target_before' = target_
  /\ wfa_result' = "none"
  /\ wfa_pc' = "create"
  /\ tmp_exists' = FALSE
  /\ tmp_bytes' = 0
  /\ delete_failed' = FALSE
  /\ UNCHANGED <<target_, bytes_written, flush_success, schedv, testv, scopev, writerv>>

\* Lines 98-101: CreateTemporaryFileInDir creates an empty temp file, or fails.
WFA_CreateTemporaryFile ==
  /\ wfa_pc = "create"
  /\ \/ /\ tmp_exists' = TRUE
        /\ wfa_pc' = "open"
        /\ UNCHANGED wfa_result
     \/ /\ tmp_exists' = FALSE
        /\ WFA_Return("false")
  /\ UNCHANGED <<wfa_data, target_, tmp_bytes, bytes_written, flush_success,
                 target_before, delete_failed, wfa_calls, schedv, testv, scopev, writerv>>

\* Lines 103-107: the temp file is opened for writing, or is not valid.
WFA_Open ==
  /\ wfa_pc = "open"
  /\ \/ /\ wfa_pc' = "write"
        /\ UNCHANGED <<wfa_result, tmp_exists, delete_failed>>
     \/ /\ DeleteTmpFile
        /\ WFA_Return("false")
  /\ UNCHANGED <<wfa_data, target_, tmp_bytes, bytes_written, flush_success,
                 target_before, wfa_calls, schedv, testv, scopev, writerv>>

\* Lines 110-113: Write returns the bytes written or -1, Flush succeeds or
\* fails, and the file is closed.
WFA_Write ==
  /\ wfa_pc = "write"
  /\ \E n \in -1..wfa_data.length :
       /\ bytes_written' = n
       /\ tmp_bytes' = IF n < 0 THEN 0 ELSE n
  /\ flush_success' \in BOOLEAN
  /\ wfa_pc' = "check"
  /\ UNCHANGED <<wfa_data, target_, tmp_exists, wfa_result, target_before,
                 delete_failed, wfa_calls, schedv, testv, scopev, writerv>>

\* The check that takes only a failed write, not a short one, for a failure.
WFA_Check_IgnoresShortWrite ==
  /\ wfa_pc = "check"
  /\ IF bytes_written < 0 \/ ~flush_success
       THEN DeleteTmpFile /\ WFA_Return("false")
       ELSE wfa_pc' = "replace" /\ UNCHANGED <<wfa_result, tmp_exists, delete_failed>>
  /\ UNCHANGED <<wfa_data, target_, tmp_bytes, bytes_written, flush_success,
                 target_before, wfa_calls, schedv, testv, scopev, writerv>>

\* Lines 115-123: a short write or a failed flush deletes the temp file and
\* returns false.
WFA_Check ==
  /\ wfa_pc = "check"
  /\ IF bytes_written < wfa_data.length \/ ~flush_success
       THEN DeleteTmpFile /\ WFA_Return("false")
       ELSE wfa_pc' = "replace" /\ UNCHANGED <<wfa_result, tmp_exists, delete_failed>>
  /\ UNCHANGED <<wfa_data, target_, tmp_bytes, bytes_written, flush_success,
                 target_before, wfa_calls, schedv, testv, scopev, writerv>>

\* Lines 125-131: ReplaceFile renames the temp file over the target, or
\* fails and leaves both files as they are.
WFA_ReplaceFile ==
  /\ wfa_pc = "replace"
  /\ \/ /\ target_' = [id |-> wfa_data.id, bytes |-> tmp_bytes]
        /\ tmp_exists' = FALSE
        /\ WFA_Return("true")
        /\ UNCHANGED delete_failed
     \/ /\ DeleteTmpFile
        /\ WFA_Return("false")
        /\ UNCHANGED target_
  /\ UNCHANGED <<wfa_data, tmp_bytes, bytes_written, flush_success,
                 target_before, wfa_calls, schedv, testv, scopev, writerv>>

FileNext ==
  \/ \E length \in 0..MaxData : WFA_Call(length)
  \/ WFA_CreateTemporaryFile
  \/ WFA_Open
  \/ WFA_Write
  \/ WFA_Check
  \/ WFA_ReplaceFile

\* The file at path holds some earlier content; the scheduler and the
\* scope are not used.
FileInit == ScopeInit

FileSpec == FileInit /\ [][FileNext]_vars

(* ------------------- gn_test.cc: the test filter ------------------------ *)
\* C strings are sequences of characters; the empty sequence is the string
\* that holds only the terminating NUL.
NameChars == {"a", "b", "-"}
FilterChars == {"a", "b", "*", "-"}
Strings(chars, n) == UNION {[1..k -> chars] : k \in 0..n}
TestNames == Strings(NameChars, MaxNameLen)
Filters == Strings(FilterChars, MaxFilterLen)

\* PatternMatchesString, lines 50-61.
RECURSIVE PatternMatchesString(_, _)
PatternMatchesString(pattern, str) ==
  IF pattern = <<>> \/ Head(pattern) = "-"
    THEN str = <<>>
    ELSE IF Head(pattern) = "*"
      THEN \/ str # <<>> /\ PatternMatchesString(pattern, Tail(str))
           \/ PatternMatchesString(Tail(pattern), str)
      ELSE /\ str # <<>>
           /\ Head(pattern) = Head(str)
           /\ PatternMatchesString(Tail(pattern), Tail(str))

\* strchr(s, ch): the position of the first ch in s, 0 for a null result.
strchr(s, ch) ==
  IF \E k \in 1..Len(s) : s[k] = ch
    THEN CHOOSE k \in 1..Len(s) : s[k] = ch /\ \A j \in 1..(k - 1) : s[j] # ch
    ELSE 0

\* TestMatchesFilter without the negative filter.
TestMatchesFilter_PositiveOnly(test, filter) ==
  LET dash == strchr(filter, "-")
      pos == IF dash = 1 THEN <<"*">> ELSE filter
  IN PatternMatchesString(pos, test)

\* TestMatchesFilter, lines 63-70.
TestMatchesFilter(test, filter) ==
  LET dash == strchr(filter, "-")
      pos == IF dash = 1 THEN <<"*">> ELSE filter
      neg == IF dash # 0 THEN SubSeq(filter, dash + 1, Len(filter)) ELSE <<>>
  IN PatternMatchesString(pos, test) /\ ~PatternMatchesString(neg, test)

\* A call of TestMatchesFilter with the chosen arguments.
TestMatchesFilter_Call ==
  /\ match_call.result = "none"
  /\ match_call' = [match_call EXCEPT
                      !.result = IF TestMatchesFilter(match_call.test,
                                                      match_call.filter)
                                   THEN "true" ELSE "false"]
  /\ UNCHANGED <<tests, argv, test_filter, main_pc, idx, failed_, passed,
                 exit_code, run_log, schedv, scopev, filev, writerv>>

MatchNext == TestMatchesFilter_Call

\* Any test name and any filter.
MatchInit ==
  /\ Constructed
  /\ suppress_stdout_for_testing_ = FALSE
  /\ budget = [sched |-> 0, fail |-> 0, log |-> 0, suppress |-> 0,
               add |-> 0, get |-> 0, book |-> 0]
  /\ MainOff
  /\ \E test \in TestNames : \E filter \in Filters :
       match_call = [test |-> test, filter |-> filter, result |-> "none"]

MatchSpec == MatchInit /\ [][MatchNext]_vars

(* ------------------- gn_test.cc: main and the tests --------------------- *)
\* The names tests are registered under, and the arguments main is given.
RunnerNames == {<<"a">>, <<"b">>, <<"a", "b">>}
RunnerFilters == {<<>>, <<"*">>, <<"a">>, <<"a", "*">>, <<"-", "a">>}
RunnerArgs ==
  {[is_filter |-> TRUE, value |-> f] : f \in RunnerFilters}
    \cup {[is_filter |-> FALSE, value |-> <<>>]}

\* Lines 122-129: every argument that starts with "--gtest_filter="
\* replaces test_filter.
RECURSIVE ParseArgs(_, _)
ParseArgs(args, filter) ==
  IF args = <<>>
    THEN filter
    ELSE ParseArgs(Tail(args), IF Head(args).is_filter
                                 THEN Head(args).value ELSE filter)

Record(i, event) == run_log' = Append(run_log, <<i, event>>)
ChecksOf(i) ==
  Cardinality({k \in 1..Len(run_log) :
                 run_log[k] \in {<<i, "CheckOk">>, <<i, "CheckFail">>}})

\* testing::Test (test.h): a new test has not failed, and Failed() returns
\* failed_.
Test_Construct == failed_' = FALSE
Failed == failed_

\* main, lines 112-129: test_filter is "*" unless an argument sets it.
main_ParseArgs ==
  /\ main_pc = "start"
  /\ test_filter' = ParseArgs(argv, <<"*">>)
  /\ main_pc' = "select"
  /\ UNCHANGED <<match_call, tests, argv, idx, failed_, passed, exit_code,
                 run_log, schedv, scopev, filev, writerv>>

\* main, lines 131-144: should_run of every registered test.
main_Select ==
  /\ main_pc = "select"
  /\ tests' = [i \in 1..Len(tests) |->
                [name |-> tests[i].name,
                 should_run |-> TestMatchesFilter(tests[i].name, test_filter)]]
  /\ passed' = TRUE
  /\ idx' = 1
  /\ main_pc' = "loop"
  /\ UNCHANGED <<match_call, argv, test_filter, failed_, exit_code, run_log,
                 schedv, scopev, filev, writerv>>

\* main, lines 145-150: the loop ends, skips a test that should not run, or
\* constructs the next test with its factory.
main_NextTest ==
  /\ main_pc = "loop"
  /\ IF idx > Len(tests)
       THEN /\ main_pc' = "ret"
            /\ UNCHANGED <<idx, failed_, run_log>>
       ELSE IF ~tests[idx].should_run
       THEN /\ idx' = idx + 1
            /\ UNCHANGED <<main_pc, failed_, run_log>>
       ELSE /\ Record(idx, "new")
            /\ Test_Construct
            /\ main_pc' = "setup"
            /\ UNCHANGED idx
  /\ UNCHANGED <<match_call, tests, argv, test_filter, passed, exit_code,
                 schedv, scopev, filev, writerv>>

\* One call of the running test: from, to and the event it records.
TestStep(from, to, event) ==
  /\ main_pc = from
  /\ main_pc' = to
  /\ Record(idx, event)
  /\ UNCHANGED <<match_call, tests, argv, test_filter, idx, failed_, passed,
                 exit_code, schedv, scopev, filev, writerv>>

\* Lines 153-155: test->SetUp(), test->Run() begins, test->TearDown().
Test_SetUp == TestStep("setup", "run", "SetUp")
Test_Run == TestStep("run", "body", "Run")
Test_TearDown == TestStep("teardown", "collect", "TearDown")

\* Check that does not latch: failed_ follows the last condition.
Check_LastWins(condition) ==
  /\ main_pc = "body"
  /\ ChecksOf(idx) < MaxChecks
  /\ failed_' = ~condition
  /\ Record(idx, IF condition THEN "CheckOk" ELSE "CheckFail")
  /\ UNCHANGED <<match_call, tests, argv, test_filter, main_pc, idx, passed,
                 exit_code, schedv, scopev, filev, writerv>>

\* testing::Test::Check, lines 101-110, called by the body of Run.
Check(condition) ==
  /\ main_pc = "body"
  /\ ChecksOf(idx) < MaxChecks
  /\ failed_' = IF ~condition THEN TRUE ELSE failed_
  /\ Record(idx, IF condition THEN "CheckOk" ELSE "CheckFail")
  /\ UNCHANGED <<match_call, tests, argv, test_filter, main_pc, idx, passed,
                 exit_code, schedv, scopev, filev, writerv>>

\* test->Run() returns.
Test_RunReturn ==
  /\ main_pc = "body"
  /\ main_pc' = "teardown"
  /\ UNCHANGED <<match_call, tests, argv, test_filter, idx, failed_, passed,
                 exit_code, run_log, schedv, scopev, filev, writerv>>

\* main, lines 156-159: a failed test clears passed; the test is deleted.
main_Collect ==
  /\ main_pc = "collect"
  /\ passed' = IF Failed THEN FALSE ELSE passed
  /\ Record(idx, "delete")
  /\ idx' = idx + 1
  /\ main_pc' = "loop"
  /\ UNCHANGED <<match_call, tests, argv, test_filter, failed_, exit_code,
                 schedv, scopev, filev, writerv>>

\* main, lines 162-165.
main_Return ==
  /\ main_pc = "ret"
  /\ exit_code' = IF passed THEN "EXIT_SUCCESS" ELSE "EXIT_FAILURE"
  /\ main_pc' = "done"
  /\ UNCHANGED <<match_call, tests, argv, test_filter, idx, failed_, passed,
                 run_log, schedv, scopev, filev, writerv>>

RunnerNext ==
  \/ main_ParseArgs
  \/ main_Select
  \/ main_NextTest
  \/ Test_SetUp
  \/ Test_Run
  \/ \E condition \in BOOLEAN : Check(condition)
  \/ Test_RunReturn
  \/ Test_TearDown
  \/ main_Collect
  \/ main_Return

\* main is entered with the tests that the static initialisers registered
\* and with the arguments of the command line.
RunnerInit ==
  /\ Constructed
  /\ suppress_stdout_for_testing_ = FALSE
  /\ budget = [sched |-> 0, fail |-> 0, log |-> 0, suppress |-> 0,
               add |-> 0, get |-> 0, book |-> 0]
  /\ match_call = [test |-> <<>>, filter |-> <<>>, result |-> "none"]
  /\ \E names \in Strings(RunnerNames, MaxTests) :
       tests = [i \in 1..Len(names) |->
                  [name |-> names[i], should_run |-> FALSE]]
  /\ argv \in Strings(RunnerArgs, MaxArgs)
  /\ test_filter = <<>>
  /\ main_pc = "start"
  /\ idx = 0
  /\ failed_ = FALSE
  /\ passed = TRUE
  /\ exit_code = "none"
  /\ run_log = <<>>

RunnerSpec == RunnerInit /\ [][RunnerNext]_vars

(* ------------- ImportantFileWriter: scheduled and direct writes --------- *)
\* HasPendingWrite(), lines 165-168.
HasPendingWrite == timer_running

\* ClearPendingWrite(), lines 225-228.
ClearPendingWrite ==
  /\ timer_running' = FALSE
  /\ serializer_' = 0

\* WriteScopedStringToFileAtomically, line 63: the task calls
\* WriteFileAtomically with its data.
WFA_Begin(length) ==
  /\ wfa_pc = "idle"
  /\ wfa_calls' = wfa_calls + 1
  /\ wfa_data' = [id |-> wfa_calls + 1, length |-> length]
  /\ target_before' = target_
  /\ wfa_result' = "none"
  /\ wfa_pc' = "create"
  /\ tmp_exists' = FALSE
  /\ tmp_bytes' = 0
  /\ delete_failed' = FALSE
  /\ UNCHANGED <<target_, bytes_written, flush_success>>

\* WriteScopedStringToFileAtomically, lines 58-63: the task runs its
\* before-callback, if it has one, and calls WriteFileAtomically.
WriteScopedStringToFileAtomically_Begin(task) ==
  /\ ~wtask.active
  /\ cb_runs' = IF task.before # 0
                  THEN [cb_runs EXCEPT ![task.before].before = @ + 1]
                  ELSE cb_runs
  /\ WFA_Begin(task.length)
  /\ wtask' = [active |-> TRUE, before |-> task.before, after |-> task.after]

\* WriteScopedStringToFileAtomically, lines 65-67: WriteFileAtomically has
\* returned; the task runs its after-callback, if it has one, with the
\* result, and ends.
WriteScopedStringToFileAtomically_End ==
  /\ wtask.active
  /\ wfa_pc = "idle"
  /\ cb_runs' = IF wtask.after # 0
                  THEN [cb_runs EXCEPT ![wtask.after].after = @ + 1,
                                       ![wtask.after].result = wfa_result]
                  ELSE cb_runs
  /\ wtask' = [active |-> FALSE, before |-> 0, after |-> 0]
  /\ UNCHANGED <<serializer_, timer_running, iw_pc, iw_data, in_dsw,
                 write_tasks, wstat, before_next_write_callback_,
                 after_next_write_callback_, schedv, testv, scopev, filev>>

\* RegisterOnNextWriteCallbacks(before, after), lines 218-223.
RegisterOnNextWriteCallbacks ==
  /\ iw_pc = "idle"
  /\ wstat.regs < MaxRegisters
  /\ wstat' = [wstat EXCEPT !.regs = @ + 1]
  /\ before_next_write_callback_' = wstat.regs + 1
  /\ after_next_write_callback_' = wstat.regs + 1
  /\ UNCHANGED <<serializer_, timer_running, iw_pc, iw_data, in_dsw,
                 write_tasks, wtask, cb_runs, schedv, testv, scopev, filev>>

\* ScheduleWrite that starts the timer on every call.
ScheduleWrite_AlwaysStarts(s) ==
  /\ iw_pc = "idle"
  /\ wstat.scheds < MaxSchedules
  /\ serializer_' = s
  /\ timer_running' = TRUE
  /\ wstat' = [wstat EXCEPT !.scheds = @ + 1, !.last = s, !.starts = @ + 1,
                            !.since = @ + 1]
  /\ UNCHANGED <<iw_pc, iw_data, in_dsw, write_tasks, schedv, testv, scopev, filev, cbv>>

\* ScheduleWrite(serializer), lines 193-204.
ScheduleWrite(s) ==
  /\ iw_pc = "idle"
  /\ wstat.scheds < MaxSchedules
  /\ serializer_' = s
  /\ timer_running' = TRUE
  /\ wstat' = [wstat EXCEPT !.scheds = @ + 1, !.last = s, !.since = @ + 1,
                            !.starts = IF timer_running THEN @ ELSE @ + 1]
  /\ UNCHANGED <<iw_pc, iw_data, in_dsw, write_tasks, schedv, testv, scopev, filev, cbv>>

\* The timer fires and runs DoScheduledWrite, lines 206-214: SerializeData
\* of serializer_ produces the data or fails. Whether the timer still counts
\* as running while its task runs is the timer's business.
DoScheduledWrite_Serialize ==
  /\ iw_pc = "idle"
  /\ timer_running
  /\ timer_running' \in BOOLEAN
  /\ in_dsw' = TRUE
  /\ \E ok \in BOOLEAN : \E length \in DataLengths :
       /\ ~ok => length = 1
       /\ wstat' = [wstat EXCEPT !.fired = @ + 1, !.used = serializer_,
                                 !.ok = ok, !.length = length, !.posts = 0,
                                 !.inline = 0]
       /\ IF ok
            THEN iw_data' = length /\ iw_pc' = "wn"
            ELSE iw_data' = iw_data /\ iw_pc' = "dsw_clear"
  /\ UNCHANGED <<serializer_, write_tasks, schedv, testv, scopev, filev, cbv>>

\* WriteNow(data) called by the owner of the writer, line 170.
WriteNow_Call(length) ==
  /\ iw_pc = "idle"
  /\ wstat.nows < MaxWriteNows
  /\ iw_data' = length
  /\ in_dsw' = FALSE
  /\ iw_pc' = "wn"
  /\ wstat' = [wstat EXCEPT !.nows = @ + 1]
  /\ UNCHANGED <<serializer_, timer_running, write_tasks, schedv, testv, scopev, filev, cbv>>

\* Where WriteNow returns to.
WriteNow_Caller == IF in_dsw THEN "dsw_clear" ELSE "idle"

\* The task that WriteNow binds, lines 177-180: the data and the two
\* callbacks.
BoundTask ==
  [length |-> iw_data, before |-> before_next_write_callback_,
   after |-> after_next_write_callback_]

\* Binding that copies the callbacks and leaves them registered.
MoveCallbacks_Copies ==
  UNCHANGED <<before_next_write_callback_, after_next_write_callback_>>

\* std::move of the two callbacks into the task, lines 179-180: the members
\* are left null.
MoveCallbacks ==
  /\ before_next_write_callback_' = 0
  /\ after_next_write_callback_' = 0

\* WriteNow, lines 172-189: data whose length does not fit int32_t makes
\* the call return at once (NOTREACHED is compiled out of a release build);
\* otherwise the write task is bound and posted to task_runner_, and if
\* PostTask fails the task is run on the spot.
WriteNow_Post ==
  /\ iw_pc = "wn"
  /\ IF iw_data > Int32Max
       THEN /\ iw_pc' = WriteNow_Caller
            /\ UNCHANGED <<write_tasks, wstat, filev, cbv>>
       ELSE /\ MoveCallbacks
            /\ \/ /\ write_tasks' = Append(write_tasks, BoundTask)
                  /\ wstat' = [wstat EXCEPT
                                 !.posts = IF in_dsw THEN @ + 1 ELSE @]
                  /\ iw_pc' = "wn_clear"
                  /\ UNCHANGED <<filev, wtask, cb_runs>>
               \/ /\ WriteScopedStringToFileAtomically_Begin(BoundTask)
                  /\ wstat' = [wstat EXCEPT
                                 !.inline = IF in_dsw THEN @ + 1 ELSE @]
                  /\ iw_pc' = "wn_inline"
                  /\ UNCHANGED write_tasks
  /\ UNCHANGED <<serializer_, timer_running, iw_data, in_dsw, schedv, testv, scopev>>

\* task.Run() of line 188 returned.
WriteNow_InlineDone ==
  /\ iw_pc = "wn_inline"
  /\ ~wtask.active
  /\ iw_pc' = "wn_clear"
  /\ UNCHANGED <<serializer_, timer_running, iw_data, in_dsw, write_tasks,
                 wstat, schedv, testv, scopev, filev, cbv>>

\* WriteNow, line 190: ClearPendingWrite, and the call returns.
WriteNow_Clear ==
  /\ iw_pc = "wn_clear"
  /\ ClearPendingWrite
  /\ iw_pc' = WriteNow_Caller
  /\ wstat' = [wstat EXCEPT
                 !.stops = IF ~in_dsw /\ timer_running THEN @ + 1 ELSE @,
                 !.since = 0]
  /\ UNCHANGED <<iw_data, in_dsw, write_tasks, schedv, testv, scopev, filev, cbv>>

\* DoScheduledWrite that leaves the pending write as it is.
DoScheduledWrite_Clear_Missing ==
  /\ iw_pc = "dsw_clear"
  /\ iw_pc' = "idle"
  /\ in_dsw' = FALSE
  /\ wstat' = [wstat EXCEPT !.done = @ + 1, !.since = 0]
  /\ UNCHANGED <<serializer_, timer_running, iw_data, write_tasks, schedv, testv,
                 scopev, filev, cbv>>

\* DoScheduledWrite, line 215: ClearPendingWrite, and the timer's task ends.
DoScheduledWrite_Clear ==
  /\ iw_pc = "dsw_clear"
  /\ ClearPendingWrite
  /\ iw_pc' = "idle"
  /\ in_dsw' = FALSE
  /\ wstat' = [wstat EXCEPT !.done = @ + 1, !.since = 0]
  /\ UNCHANGED <<iw_data, write_tasks, schedv, testv, scopev, filev, cbv>>

\* task_runner_ runs the next posted task on its own sequence.
TaskRunner_RunTask ==
  /\ write_tasks # <<>>
  /\ iw_pc # "wn_inline"
  /\ WriteScopedStringToFileAtomically_Begin(Head(write_tasks))
  /\ write_tasks' = Tail(write_tasks)
  /\ UNCHANGED <<serializer_, timer_running, iw_pc, iw_data, in_dsw, wstat,
                 before_next_write_callback_, after_next_write_callback_,
                 schedv, testv, scopev>>

WriterNext ==
  \/ \E s \in 1..NumSerializers : ScheduleWrite(s)
  \/ DoScheduledWrite_Serialize
  \/ \E length \in DataLengths : WriteNow_Call(length)
  \/ WriteNow_Post
  \/ WriteNow_InlineDone
  \/ WriteNow_Clear
  \/ DoScheduledWrite_Clear
  \/ TaskRunner_RunTask
  \/ WriteScopedStringToFileAtomically_End
  \/ WFA_CreateTemporaryFile
  \/ WFA_Open
  \/ WFA_Write
  \/ WFA_Check
  \/ WFA_ReplaceFile

\* ImportantFileWriter::ImportantFileWriter, lines 143-155: no serializer,
\* the timer not started.
WriterInit == ScopeInit

WriterSpec == WriterInit /\ [][WriterNext]_vars

\* A writer whose owner registers callbacks and calls WriteNow, and does not
\* schedule writes.
CallbackNext ==
  \/ RegisterOnNextWriteCallbacks
  \/ \E length \in DataLengths : WriteNow_Call(length)
  \/ WriteNow_Post
  \/ WriteNow_InlineDone
  \/ WriteNow_Clear
  \/ TaskRunner_RunTask
  \/ WriteScopedStringToFileAtomically_End
  \/ WFA_CreateTemporaryFile
  \/ WFA_Open
  \/ WFA_Write
  \/ WFA_Check
  \/ WFA_ReplaceFile

CallbackInit == WriterInit

CallbackSpec == CallbackInit /\ [][CallbackNext]_vars

(* ------------------------------- claims -------------------------------- *)
\* A worker is inside the work body of its task (line 74), possibly inside
\* an operation the body called.
InBody(w) == pc[w] \notin {"free", "dwc", "dwc_post", "pool_dec", "sig_lock", "sig"}

\* A task handed to ScheduleWork is about to be posted, queued or running.
WorkOutstanding ==
  \/ pool_queue > 0
  \/ \E t \in Threads : pc[t] \in {"sw_pool_inc", "sw_post"}
  \/ \E w \in Workers : InBody(w)

\* How many tasks of a kind were posted to the main loop, and were dequeued.
Posted(kind) == Cardinality({i \in 1..Len(posted) : posted[i].kind = kind})
Ran(kind) == Cardinality({i \in 1..ran : posted[i].kind = kind})

\* Everything posted has run and no thread is inside an operation, while
\* the main thread sits in the loop of Run.
AllPostedTasksRan ==
  /\ pc[Main] = "loop"
  /\ ran = Len(posted)
  /\ pool_queue = 0
  /\ \A w \in Workers : pc[w] = "free"

\* C1 as claimed: for any set of ScheduleWork calls, once every posted task
\* has run, Run has returned; so it is never still in its loop with nothing
\* left to run.
C1_RunReturnsForAnyCalls == ~(phase = "run" /\ AllPostedTasksRan)

\* C1, amended: when at least one ScheduleWork call was made, and every
\* posted task eventually runs, a Run that was called eventually returns.
C1_RunReturnsOnceWorkWasScheduled ==
  (phase = "run" /\ calls.sched >= 1) ~> (phase = "post")

\* Run has returned after the work count reached zero, with no failure.
C1_Witness ==
  phase = "post" /\ calls.sched >= 1 /\ latched = NoErr /\ Ran("OnComplete") >= 1

\* The main thread is inside FailWithErrorOnMainThread, before its PostQuit.
InFailTask == pc[Main] \in {"fweomt_lock", "fweomt_cs", "fweomt_print", "fweomt_quit"}

\* C2: every DecrementWorkCount call that brings work_count_ to zero posts
\* exactly one OnComplete task and the other calls post none (the OnComplete
\* tasks posted, plus the calls about to post, are the calls that reached
\* zero), and each OnComplete that runs posts exactly one quit.
C2_OnCompletePerZeroDecrement ==
  /\ Posted("OnComplete") + Cardinality({t \in Threads : pc[t] = "dwc_post"})
       = zero_decs
  /\ \A i \in 1..Len(posted) :
       posted[i].kind = "OnComplete" => posted[i].by \in Workers
  /\ Posted("Quit")
       = Ran("OnComplete") + Ran("Fail") - (IF InFailTask THEN 1 ELSE 0)

\* One decrement reached zero and posted OnComplete, another did not reach
\* zero, and the OnComplete task ran.
C2_Witness ==
  /\ zero_decs = 1
  /\ calls.sched = 2
  /\ work_count_ = 0
  /\ Ran("OnComplete") = 1
  /\ \A t \in Threads : pc[t] \notin {"dwc", "dwc_post"}
  /\ \A w \in Workers : ~InBody(w)
  /\ pool_queue = 0

\* C3: once Run has returned, it returned true exactly when no FailWithError
\* call set is_failed_, and false exactly when one did (before Run marked
\* the scheduler as shut down: none can afterwards).
C3_RunResultIffNoError ==
  run_result # "none" =>
    /\ (run_result = "false") = (latched # NoErr)
    /\ (run_result = "true") = (latched = NoErr)
    /\ is_failed_ = (latched # NoErr)

\* Run returned false after a failure, and a later FailWithError was dropped.
C3_Witness ==
  run_result = "false" /\ calls.fail = 2 /\ \A t \in Threads : pc[t] # "fail_cs"

\* The errors written to the output.
PrintedErrs == {i \in 1..Len(output_) : output_[i].kind = "err"}

\* FailWithErrorOnMainThread has run to its end.
FailTaskDone == Ran("Fail") >= 1 /\ ~InFailTask

\* C4 as claimed: the FailWithErrorOnMainThread task of the latched error
\* prints that error whenever it runs.
C4_LatchedErrorIsPrinted ==
  FailTaskDone => \E i \in PrintedErrs : output_[i].a = latched

\* C4, amended: the first FailWithError call to take lock_ before shutdown,
\* and no other, sets is_failed_ and posts one FailWithErrorOnMainThread;
\* that task prints the error unless stdout is suppressed for testing, and
\* posts quit; no other call posts or prints; is_failed_ stays set.
C4_FirstErrorLatch ==
  /\ latched \in {NoErr, 1}
  /\ is_failed_ = (latched # NoErr)
  /\ Posted("Fail") + Cardinality({t \in Threads : pc[t] = "fail_post"})
       = (IF latched # NoErr THEN 1 ELSE 0)
  /\ \A i \in 1..Len(posted) : posted[i].kind = "Fail" => posted[i].a = latched
  /\ \A t \in Threads : pc[t] = "fail_post" => arg[t] = latched
  /\ \A i \in PrintedErrs : output_[i].a = latched /\ output_[i].by = Main
  /\ Cardinality(PrintedErrs) <= 1
  /\ FailTaskDone => (PrintedErrs # {}) = ~suppress_local
  /\ Posted("Quit")
       = Ran("OnComplete") + Ran("Fail") - (IF InFailTask THEN 1 ELSE 0)

\* Two FailWithError calls were made before shutdown; the first was latched,
\* printed and followed by a quit, the second was dropped.
C4_Witness ==
  /\ calls.fail = 2
  /\ latched = 1
  /\ ~has_been_shutdown_
  /\ FailTaskDone
  /\ PrintedErrs # {}
  /\ \A t \in Threads : pc[t] \notin {"fail_cs", "fail_post"}

\* C5: when Run or ~Scheduler is about to return, no task handed to
\* ScheduleWork is queued or still running its work, and pool_work_count_
\* is zero.
C5_NoReturnWhileWorkInFlight ==
  pc[Main] \in {"run_ret", "dtor_ret"} =>
    pool_work_count_ = 0 /\ ~WorkOutstanding

\* Run is about to return after a failure quit the loop early, before any
\* OnComplete ran, with two tasks scheduled.
C5_Witness ==
  /\ pc[Main] = "run_ret"
  /\ latched # NoErr
  /\ Ran("OnComplete") = 0
  /\ calls.sched = 2

\* C6 as claimed: when OnComplete is about to be posted, work_count_ and
\* pool_work_count_ are both zero.
C6_CountsZeroAtPost ==
  \A t \in Threads : pc[t] = "dwc_post" => work_count_ = 0 /\ pool_work_count_ = 0

\* C6, amended: OnComplete is posted only by a DecrementWorkCount call whose
\* decrement brought work_count_ to zero, at which instant no scheduled task
\* is queued or running its work; pool_work_count_ is not zero then, since
\* the posting task decrements it only afterwards.
C6_PostOnlyAfterZero ==
  /\ [][\A t \in Threads :
          (pc[t] = "dwc" /\ pc'[t] = "dwc_post") =>
            work_count_' = 0 /\ ~WorkOutstanding']_vars
  /\ [][\A t \in Threads :
          (pc[t] # "dwc_post" /\ pc'[t] = "dwc_post") => pc[t] = "dwc"]_vars
  /\ [](\A t \in Threads : pc[t] = "dwc_post" => pool_work_count_ >= 1)

\* A worker is about to post OnComplete.
C6_Witness == \E t \in Workers : pc[t] = "dwc_post" /\ calls.sched = 2

\* The thread that posts a task in this step.
Posts(t) ==
  \/ Len(posted') > Len(posted) /\ posted'[Len(posted')].by = t
  \/ pool_queue' > pool_queue /\ pc[t] = "sw_post"

\* C7: at the moment a thread posts a task or a quit, to the main loop or
\* to the worker pool, it holds neither lock_ nor pool_work_count_lock_.
C7_NoLockHeldAcrossPost ==
  [][\A t \in Threads :
       Posts(t) => lock_ # t /\ pool_work_count_lock_ # t]_vars

\* Tasks of every kind were posted, by workers and by the main thread.
C7_Witness ==
  /\ Posted("Fail") = 1
  /\ Posted("OnComplete") >= 1
  /\ Posted("Log") = 1
  /\ Posted("Quit") >= 2

\* Where a thread reads or writes a field that lock_ guards.
GuardedAccess ==
  {"fail_cs", "add_cs", "get_cs", "suppress_cs", "fweomt_cs", "run_cs",
   "written_cs", "unknown_cs", "rdeps_cs", "get_rdeps_cs", "is_gen_cs",
   "get_unknown_cs", "clear_cs"}

\* The main thread is inside WaitForPoolTasks.
InWaitForPoolTasks == pc[Main] \in {"wait_lock", "wait_check", "wait_cv", "wait_wake"}

guarded == <<gen_dependencies_, written_files_, unknown_generated_inputs_,
             write_runtime_deps_targets_, is_failed_, has_been_shutdown_,
             suppress_stdout_for_testing_>>

\* C9: a thread that reads or writes a guarded field holds lock_, at most
\* one thread is at such an access, and every step that changes a guarded
\* field is a step of the thread that holds lock_.
C9_GuardedFieldsUnderLock ==
  /\ [](\A t \in Threads : pc[t] \in GuardedAccess => lock_ = t)
  /\ [](Cardinality({t \in Threads : pc[t] \in GuardedAccess}) <= 1)
  /\ [][guarded' # guarded =>
          lock_ # NoThread /\ pc[lock_] \in GuardedAccess /\ pc'[lock_] # pc[lock_]]_vars

\* A worker is inside a guarded access while the main thread waits for
\* lock_ in Run.
C9_Witness ==
  /\ pc[Main] = "run_lock"
  /\ \E w \in Workers : lock_ = w /\ pc[w] \in GuardedAccess

\* The entries of a sequence that thread t added, in order.
ByThread(seq, t) == SelectSeq(seq, LAMBDA e : e.by = t)

\* C10: what GetGenDependencies returns has one entry per completed
\* AddGenDependency call, duplicates kept, and the entries of each thread
\* in the order the thread added them.
C10_GenDependenciesKept ==
  [][\A t \in Threads :
       (pc[t] = "get_cs" /\ pc'[t] # "get_cs") =>
         /\ Len(got') = Len(add_log)
         /\ \A u \in Threads : ByThread(got', u) = ByThread(add_log, u)]_vars

\* GetGenDependencies returned three entries: two of one thread, the same
\* file twice, around one of another thread.
C10_Witness ==
  /\ Len(got) = 3
  /\ got[1].by = got[3].by
  /\ got[2].by # got[1].by
  /\ got[1].file = got[3].file

\* How often x occurs in a sequence.
Count(seq, x) == Cardinality({i \in 1..Len(seq) : seq[i] = x})

\* C11: what GetUnknownGeneratedInputs returns holds every recorded pair
\* (file, target) as often as it was recorded when no AddWrittenFile call
\* recorded its file, and not at all when one did, whatever the order of
\* the calls; the call leaves the map and the written files as they were.
C11_UnknownInputsFiltered ==
  [][\A t \in Threads :
       (pc[t] = "get_unknown_cs" /\ pc'[t] # "get_unknown_cs") =>
         /\ \A f \in Files, g \in Targets :
              Count(got_unknown', <<f, g>>)
                = IF \E i \in 1..Len(written_log) : written_log[i].file = f
                    THEN 0 ELSE Count(unknown_log, <<f, g>>)
         /\ unknown_generated_inputs_' = unknown_generated_inputs_
         /\ written_files_' = written_files_]_vars

\* Two files were recorded as unknown inputs and one of them was written
\* afterwards; GetUnknownGeneratedInputs then returned only the pair of the
\* other file.
C11_Witness ==
  /\ Len(unknown_log) = 2
  /\ unknown_log[1][1] # unknown_log[2][1]
  /\ written_log = <<[file |-> unknown_log[1][1], at |-> 2]>>
  /\ got_unknown = <<unknown_log[2]>>

\* C12: IsFileGeneratedByWriteRuntimeDeps(file) returns true exactly when a
\* target passed to a completed AddWriteRuntimeDepsTarget call writes its
\* runtime deps to that file; with no target added it returns false.
C12_GeneratedIffTargetAdded ==
  [][\A t \in Threads :
       (pc[t] = "is_gen_cs" /\ pc'[t] # "is_gen_cs") =>
         /\ (got_generated' = "true")
              = (\E g \in rdeps_log : write_runtime_deps_output(g) = arg[t])
         /\ (got_generated' = "false")
              = ~(\E g \in rdeps_log : write_runtime_deps_output(g) = arg[t])
         /\ rdeps_log = {} => got_generated' = "false"]_vars

\* Both targets were added and a lookup returned true, in three calls.
C12_Witness ==
  /\ Len(write_runtime_deps_targets_) = 2
  /\ write_runtime_deps_targets_[1] # write_runtime_deps_targets_[2]
  /\ got_generated = "true"
  /\ calls.book = 3
  /\ \A t \in Threads : pc[t] # "is_gen_cs"

WFA_Returned == wfa_pc = "idle" /\ wfa_result # "none"

\* C14 as claimed: after a call that returned false, no temp file is left.
C14_TempFileAlwaysDeleted ==
  (WFA_Returned /\ wfa_result = "false") => ~tmp_exists

\* C14, amended: the call returns true only when the whole data was
\* written to the temp file, flushed, and renamed over the target, which
\* then holds the data; when it returns false the target holds what it
\* held before, and the temp file, if one was created, is gone unless its
\* DeleteFile failed.
C14_AllOrNothing ==
  WFA_Returned =>
    /\ wfa_result = "true" =>
         /\ target_ = [id |-> wfa_data.id, bytes |-> wfa_data.length]
         /\ bytes_written = wfa_data.length
         /\ flush_success
         /\ ~tmp_exists
    /\ wfa_result = "false" =>
         /\ target_ = target_before
         /\ tmp_exists => delete_failed

\* A first call replaced the target; the second wrote only part of its
\* data, returned false, removed its temp file and left the target as the
\* first call wrote it.
C14_Witness ==
  /\ WFA_Returned
  /\ wfa_result = "false"
  /\ wfa_calls = 2
  /\ target_ = [id |-> 1, bytes |-> MaxData]
  /\ bytes_written = 1
  /\ wfa_data.length = 2
  /\ ~tmp_exists

\* The messages written to the output.
PrintedLogs == {i \in 1..Len(output_) : output_[i].kind = "log"}

\* C15: every Log call posts one LogOnMainThread task; output is written
\* only by a step of the main thread that runs a LogOnMainThread task taken
\* from the loop or is inside FailWithErrorOnMainThread, one entry for each
\* such task, never by a step of the thread that called Log or FailWithError.
C15_OutputOnMainThreadOnly ==
  /\ [](/\ Posted("Log") = calls.log
        /\ Cardinality(PrintedLogs) = Ran("Log")
        /\ \A i \in 1..Len(output_) : output_[i].by = Main)
  /\ [][output_' # output_ =>
          /\ Len(output_') = Len(output_) + 1
          /\ SubSeq(output_', 1, Len(output_)) = output_
          /\ \/ pc[Main] = "loop" /\ HasTask("Log") /\ ran' = ran + 1
             \/ pc[Main] = "fweomt_print" /\ pc'[Main] = "fweomt_quit"]_vars

\* A worker and the main program called Log, a call of FailWithError was
\* latched, and the main loop wrote both messages and the error.
C15_Witness ==
  /\ calls.log = 2
  /\ \E i, j \in 1..Len(posted) :
       /\ posted[i].kind = "Log" /\ posted[i].by \in Workers
       /\ posted[j].kind = "Log" /\ posted[j].by = Main
  /\ Ran("Log") = 2
  /\ Cardinality(PrintedLogs) = 2
  /\ PrintedErrs # {}

\* The tasks handed to ScheduleWork that have not finished their work: the
\* calls between their IncrementWorkCount and their PostTask, the tasks
\* queued, and the workers inside a work body.
UnfinishedWork ==
  Cardinality({t \in Threads : pc[t] \in {"sw_pool_inc", "sw_post"}})
    + pool_queue
    + Cardinality({w \in Workers : InBody(w)})

\* C16: work_count_ and pool_work_count_ are never negative, and
\* work_count_ is at least the number of scheduled tasks that have not
\* finished their work, so it is not zero, and no DecrementWorkCount is
\* about to post OnComplete for a count of zero, while there is one.
C16_WorkCountCoversUnfinishedWork ==
  /\ work_count_ >= 0
  /\ pool_work_count_ >= 0
  /\ work_count_ >= UnfinishedWork
  /\ WorkOutstanding => work_count_ > 0

\* A task that is running schedules further work: its own work and the work
\* it is about to post are both counted.
C16_Witness ==
  /\ \E w \in Workers : pc[w] = "sw_post"
  /\ work_count_ = 2
  /\ UnfinishedWork = 2

\* WaitForPoolTasks has just returned, in Run or in ~Scheduler.
WaitReturned == pc[Main] \in {"run_ret", "dtor_ret"}

\* C17 as claimed: when WaitForPoolTasks has returned, every worker's task
\* is over, its Signal included.
C17_WorkersDoneAtWaitReturn ==
  WaitReturned => \A w \in Workers : pc[w] = "free"

\* C17, amended: when WaitForPoolTasks has returned, every task has finished
\* its work, its DecrementWorkCount and its decrement of pool_work_count_;
\* a task may still be about to take pool_work_count_lock_ and Signal, and
\* touches no other member.
C17_OnlySignalLeftAtWaitReturn ==
  WaitReturned =>
    /\ pool_queue = 0
    /\ \A w \in Workers : pc[w] \in {"free", "sig_lock", "sig"}
    /\ \A t \in Threads : pc[t] \notin {"sw_pool_inc", "sw_post"}

\* ~Scheduler's WaitForPoolTasks has returned while a worker has yet to
\* take pool_work_count_lock_ and Signal.
C17_Witness ==
  /\ pc[Main] = "dtor_ret"
  /\ \E w \in Workers : pc[w] = "sig_lock"

\* C18: has_been_shutdown_ is never reset; once it is set no step changes
\* is_failed_, and a FailWithError call that reaches its test then returns
\* without going on to post a task.
C18_ErrorsAfterShutdownIgnored ==
  /\ [][has_been_shutdown_ => has_been_shutdown_' /\ is_failed_' = is_failed_]_vars
  /\ [][\A t \in Threads :
          (has_been_shutdown_ /\ pc[t] = "fail_cs" /\ pc'[t] # "fail_cs") =>
            /\ pc'[t] = Home(t)
            /\ posted' = posted
            /\ latched' = latched]_vars
  /\ [][has_been_shutdown_ =>
          \A t \in Threads : pc'[t] = "fail_post" => pc[t] = "fail_post"]_vars

\* Run returned true, a FailWithError call was made afterwards and has
\* returned: nothing was latched and nothing posted.
C18_Witness ==
  /\ run_result = "true"
  /\ calls.fail >= 1
  /\ \A t \in Threads : pc[t] \notin {"fail_cs", "fail_post"}
  /\ ~is_failed_
  /\ Posted("Fail") = 0

\* The writer's sequence is between two calls.
WriterIdle == iw_pc = "idle"

\* The scheduled writes that are pending: one or none.
PendingWrites == IF HasPendingWrite THEN 1 ELSE 0

\* C19 as stated: every start of the timer has led to one DoScheduledWrite
\* or is still pending.
C19_EveryStartLeadsToDoScheduledWrite ==
  WriterIdle => wstat.starts = wstat.fired + PendingWrites

\* C19: a ScheduleWrite call made while a write is pending does not start
\* the timer; every start of the timer has led to one DoScheduledWrite, was
\* stopped by a direct WriteNow with no DoScheduledWrite, or is still
\* pending; DoScheduledWrite serializes with the serializer of the most
\* recent ScheduleWrite; and between calls HasPendingWrite holds exactly
\* when ScheduleWrite was called since the last write or ClearPendingWrite.
C19_WriteCoalescing ==
  /\ [][wstat'.scheds > wstat.scheds =>
          /\ HasPendingWrite'
          /\ serializer_' = wstat'.last
          /\ HasPendingWrite => wstat'.starts = wstat.starts]_vars
  /\ [](WriterIdle =>
          /\ wstat.starts = wstat.fired + wstat.stops + PendingWrites
          /\ HasPendingWrite <=> wstat.since > 0)
  /\ [][wstat'.fired > wstat.fired =>
          /\ wstat'.used = wstat.last
          /\ wstat'.used # 0]_vars

\* Two ScheduleWrite calls started the timer once, and the one
\* DoScheduledWrite that followed used the serializer of the second.
C19_Witness ==
  /\ WriterIdle
  /\ wstat.scheds = 2
  /\ wstat.nows = 0
  /\ wstat.starts = 1
  /\ wstat.done = 1
  /\ wstat.used = 2
  /\ ~HasPendingWrite

\* C20 as stated: a DoScheduledWrite whose serialization succeeded has
\* posted exactly one write task when it completes.
C20_OneTaskPostedOnSuccess ==
  [][wstat'.done > wstat.done /\ wstat.ok => wstat.posts = 1]_vars

\* C20: when DoScheduledWrite completes, HasPendingWrite() is false and
\* serializer_ is null; after a failed serialization it has posted and run
\* no write task and none of its steps touched the file or the task
\* runner's queue; after a successful one whose data length fits int32_t it
\* has issued exactly one write, posted or, PostTask failing, run on the
\* spot, and none when the length does not fit.
C20_DoScheduledWriteOutcome ==
  /\ [][wstat'.done > wstat.done =>
          /\ ~HasPendingWrite'
          /\ serializer_' = 0
          /\ ~wstat.ok => wstat.posts = 0 /\ wstat.inline = 0
          /\ wstat.ok /\ wstat.length <= Int32Max =>
               wstat.posts + wstat.inline = 1
          /\ wstat.ok /\ wstat.length > Int32Max =>
               wstat.posts = 0 /\ wstat.inline = 0]_vars
  /\ [][(in_dsw \/ in_dsw') /\ ~wstat'.ok /\ iw_pc' # iw_pc =>
          UNCHANGED <<filev, write_tasks>>]_vars

\* A DoScheduledWrite whose serialization failed has completed: nothing is
\* pending, no task was posted and WriteFileAtomically was never called.
C20_Witness ==
  /\ WriterIdle
  /\ wstat.done = 1
  /\ ~wstat.ok
  /\ ~HasPendingWrite
  /\ serializer_ = 0
  /\ write_tasks = <<>>
  /\ wfa_calls = 0

\* The registrations, and the step in which WriteNow leaves its range check
\* and PostTask.
Registrations == 1..MaxRegisters
WriteNow_Decided == iw_pc = "wn" /\ iw_pc' # "wn"

RECURSIVE Matches(_, _)
Matches(pattern, str) ==
  IF pattern = <<>>
    THEN str = <<>>
    ELSE IF Head(pattern) = "*"
      THEN \E k \in 0..Len(str) :
             Matches(Tail(pattern), SubSeq(str, k + 1, Len(str)))
      ELSE /\ str # <<>>
           /\ Head(pattern) = Head(str)
           /\ Matches(Tail(pattern), Tail(str))

\* The parts of a filter: before its first "-" ("*" when it starts with
\* one), after it, and after it up to the next "-".
Before(s) == IF strchr(s, "-") = 0 THEN s ELSE SubSeq(s, 1, strchr(s, "-") - 1)
After(s) == IF strchr(s, "-") = 0 THEN <<>>
            ELSE SubSeq(s, strchr(s, "-") + 1, Len(s))
Positive(filter) == IF strchr(filter, "-") = 1 THEN <<"*">> ELSE Before(filter)
MatchCalled == match_call.result # "none"
Selected == match_call.result = "true"

\* C22 as stated: the result is true exactly when the part before the first
\* "-" matches the test name and the whole part after it does not.
C22_FilterSelectsByWholeNegativePart ==
  MatchCalled =>
    (Selected <=>
       /\ Matches(Positive(match_call.filter), match_call.test)
       /\ ~Matches(After(match_call.filter), match_call.test))

\* C22: the result is true exactly when the part of the filter before its
\* first "-" ("*" when the filter starts with "-") matches the whole test
\* name and the part between the first "-" and the next one, or the end,
\* does not; the filter "*" selects every test name that is not empty.
C22_FilterSelects ==
  MatchCalled =>
    /\ Selected <=>
         /\ Matches(Positive(match_call.filter), match_call.test)
         /\ ~Matches(Before(After(match_call.filter)), match_call.test)
    /\ match_call.filter = <<"*">> =>
         (Selected <=> match_call.test # <<>>)

\* The filter "a*-a" was applied to the test "ab": the positive part
\* matches, the negative part does not, and the test is selected.
C22_Witness ==
  match_call = [test |-> <<"a", "b">>, filter |-> <<"a", "*", "-", "a">>,
                result |-> "true"]

\* The filter main has to use: that of the last --gtest_filter argument,
\* "*" when there is none; and the tests it selects.
FilterArgs == {k \in 1..Len(argv) : argv[k].is_filter}
UsedFilter ==
  IF FilterArgs = {}
    THEN <<"*">>
    ELSE argv[CHOOSE k \in FilterArgs : \A j \in FilterArgs : j <= k].value
SelectedTests ==
  {i \in 1..Len(tests) : TestMatchesFilter(tests[i].name, UsedFilter)}

\* What a run through one test records, and through the selected tests
\* from the i-th registered one on.
Lifecycle(i) ==
  <<<<i, "new">>, <<i, "SetUp">>, <<i, "Run">>, <<i, "TearDown">>,
    <<i, "delete">>>>
RECURSIVE ExpectedRuns(_)
ExpectedRuns(i) ==
  IF i > Len(tests)
    THEN <<>>
    ELSE (IF i \in SelectedTests THEN Lifecycle(i) ELSE <<>>)
           \o ExpectedRuns(i + 1)

\* The recorded events other than Check calls, and the failing Checks.
IsCall(e) == e[2] \notin {"CheckOk", "CheckFail"}
CallsRecorded == SelectSeq(run_log, IsCall)
FailedChecks == {k \in 1..Len(run_log) : run_log[k][2] = "CheckFail"}
IsPrefix(s, t) == Len(s) <= Len(t) /\ s = SubSeq(t, 1, Len(s))
MainReturned == main_pc = "done"

\* C23: at every moment main has constructed, set up, run, torn down and
\* deleted only selected tests, in registration order and each step once;
\* when it returns it has done so for all of them, and it returns
\* EXIT_SUCCESS exactly when no Check of an executed test failed; the
\* selection is made with the last --gtest_filter argument; and failed_,
\* once set, stays set until the next test is constructed.
C23_TestRunnerOutcome ==
  /\ [](IsPrefix(CallsRecorded, ExpectedRuns(1)))
  /\ [](MainReturned =>
          /\ CallsRecorded = ExpectedRuns(1)
          /\ exit_code = "EXIT_SUCCESS" <=> FailedChecks = {}
          /\ test_filter = UsedFilter)
  /\ [][failed_ /\ ~failed_' =>
          /\ Len(run_log') = Len(run_log) + 1
          /\ run_log'[Len(run_log')][2] = "new"]_vars

\* main returned EXIT_FAILURE after it was given two different filters and
\* two registered tests: only the second test matches the last filter, it
\* ran, and a Check of it failed before one that held.
C23_Witness ==
  /\ MainReturned
  /\ Len(tests) = 2
  /\ SelectedTests = {2}
  /\ Len(argv) = 2
  /\ argv[1].is_filter /\ argv[2].is_filter
  /\ TestMatchesFilter(tests[1].name, argv[1].value)
  /\ run_log = <<<<2, "new">>, <<2, "SetUp">>, <<2, "Run">>,
                 <<2, "CheckFail">>, <<2, "CheckOk">>, <<2, "TearDown">>,
                 <<2, "delete">>>>
  /\ exit_code = "EXIT_FAILURE"

====
